---- MODULE Spec2Model ----
(***************************************************************************)
(* Observation simulation pipeline of Tudat                                *)
(* (Tudat/Astrodynamics/ObservationModels/simulateObservations.h).         *)
(*                                                                         *)
(* SpecSingle  : one call of simulateSingleObservationSet (either          *)
(*               overload).                                                *)
(* Spec        : one call of simulateObservations or of one of the         *)
(*               simulateObservationsWithNoise overloads, one pair of      *)
(*               (observable type, link ends) per step.                    *)
(***************************************************************************)
EXTENDS Integers, Sequences, FiniteSets, TLC

\* Longest list of simulation times; the times themselves are 1..MaxTimes.
MaxTimes == 2

\* Bits of significand of ObservationScalarType (53 for double), scaled down
\* so that rounding happens on the small values of the model.
Precision == 4

\* The null pointer.
NULL == [null |-> TRUE]

----------------------------------------------------------------------------
(* Types that simulateObservations.h takes from the headers it includes.    *)

\* enum LinkEndType; a value-initialised LinkEndType has the value 0.
valueInitializedLinkEndType == 0
transmitter == 1
receiver == 2
LinkEndTypes == {transmitter, receiver}

\* enum ObservableType, in the order of its enumerators (the key order of
\* every std::map< ObservableType, ... >).
one_way_range == 0
angular_position == 1
position_observable == 2

\* LinkEnds values, in the order operator< gives them as std::map keys.
LinkEndsValues == {1, 2}

\* The size of an observable of a given type (the Catalog).
getObservableSize(observableType) ==
    CASE observableType = one_way_range -> 1
      [] observableType = angular_position -> 2
      [] observableType = position_observable -> 3

SimulationTimes == 1..MaxTimes

----------------------------------------------------------------------------
(* Arithmetic of ObservationScalarType: binary floating point with         *)
(* Precision bits, round to nearest, ties to even, on non-negative values. *)

RECURSIVE UnitInLastPlace(_, _)
UnitInLastPlace(x, u) ==
    IF x < u * (2 ^ Precision) THEN u ELSE UnitInLastPlace(x, 2 * u)

RoundToScalar(x) ==
    LET u == UnitInLastPlace(x, 1)
        q == x \div u
        rem == x % u
    IN  IF 2 * rem > u \/ (2 * rem = u /\ q % 2 = 1) THEN (q + 1) * u ELSE q * u

ScalarAdd(a, b) == RoundToScalar(a + b)

\* a - b for a >= b
ScalarSubtract(a, b) == RoundToScalar(a - b)

----------------------------------------------------------------------------
(* Values *)

\* TabulatedObservationSimulationTimeSettings( linkEndType, simulationTimes )
TabulatedObservationSimulationTimeSettings(linkEndType, simulationTimes) ==
    [variant |-> "Tabulated", linkEndType_ |-> linkEndType,
     simulationTimes_ |-> simulationTimes]

\* A settings object that is not of the Tabulated class.
ObservationSimulationTimeSettings(linkEndType) ==
    [variant |-> "Base", linkEndType_ |-> linkEndType]

\* std::pair< Matrix, std::pair< std::vector< TimeType >, LinkEndType > >
ObservationSet(values, times, linkEndType) ==
    [first |-> values, second |-> [first |-> times, second |-> linkEndType]]

\* The value-initialised pair of simulateSingleObservationSet.
EmptyObservationSet == ObservationSet(<<>>, <<>>, valueInitializedLinkEndType)

\* How a call ends: it returns a value, throws, or the process dies.
Returned(value) == [kind |-> "returned", value |-> value]
Threw(error) == [kind |-> "threw", error |-> error]
Aborted(error) == [kind |-> "aborted", error |-> error]

\* What the code throws (std::runtime_error by its message, std::out_of_range
\* by the map whose at( ) throws it).
ObservationSimulatorIsNull == "Observation simulator is NULL"
OutOfRangeObservationSimulators == "std::out_of_range observationSimulators"
DynamicCastIsNull == "dynamic case to size is NULL"
NotYetImplementedForSize == "simulation of observations not yet implemented for size"
InputDataIsInconsistent == "input data is inconsistent"
OutOfRangeNoiseFunctions == "std::out_of_range noiseFunctions"
NoiseSizeIsInconsistent == "noise size is inconsistent"
MissingObservable == "missing observable"

\* One way a call may go: its end and the model evaluations it made.
Outcome(end, evaluations) == [end |-> end, evaluations |-> evaluations]

RECURSIVE Concatenate(_)
Concatenate(blocks) ==
    IF blocks = <<>> THEN <<>> ELSE Head(blocks) \o Concatenate(Tail(blocks))

----------------------------------------------------------------------------
(* std::map: keys in ascending order, insertion *)

RECURSIVE KeysInOrder(_)
KeysInOrder(keys) ==
    IF keys = {} THEN <<>>
    ELSE LET least == CHOOSE k \in keys : \A other \in keys : k <= other
         IN  <<least>> \o KeysInOrder(keys \ {least})

\* map[ key ] = value
MapPut(map, key, value) ==
    [k \in DOMAIN map \cup {key} |-> IF k = key THEN value ELSE map[k]]

\* map[ observableType ][ linkEnds ] = value
NestedMapPut(map, observableType, linkEnds, value) ==
    MapPut(map, observableType,
           MapPut(IF observableType \in DOMAIN map THEN map[observableType] ELSE << >>,
                  linkEnds, value))

\* The (observable type, link ends) pairs of a nested map, in the order the
\* nested iteration visits them.
PairsInOrder(map) ==
    LET types == KeysInOrder(DOMAIN map)
    IN  Concatenate([i \in 1..Len(types) |->
            LET links == KeysInOrder(DOMAIN map[types[i]])
            IN  [j \in 1..Len(links) |-> <<types[i], links[j]>>]])

----------------------------------------------------------------------------
(* observationSimulator.h (not part of the sources at hand)                 *)

\* ObservationModel< ObservationSize >: identified by id.
ObservationModel(size, id) == [ObservationSize |-> size, id |-> id]

\* The observation a model computes at a time, from a reference link end:
\* a vector of ObservationSize values of ObservationScalarType.
computeObservations(observationModel, time, linkEndAssociatedWithTime) ==
    [c \in 1..observationModel.ObservationSize |->
        RoundToScalar(6 * time + 3 * (linkEndAssociatedWithTime - 1) + (c - 1)
                      + 12 * (observationModel.id - 1))]

\* ObservationSimulator< ObservationSize >: the size it reports per link
\* ends and the models registered per link ends.
ObservationSimulator(size, reportedSize, observationModels) ==
    [ObservationSize |-> size, reportedSize |-> reportedSize,
     observationModels_ |-> observationModels]

getObservationSize(observationSimulator, linkEnds) ==
    observationSimulator.reportedSize[linkEnds]

\* The model registered for the link ends; no model when none is registered.
getObservationModel(observationSimulator, linkEnds) ==
    IF linkEnds \in DOMAIN observationSimulator.observationModels_
    THEN observationSimulator.observationModels_[linkEnds]
    ELSE NULL

\* What dereferencing a null shared_ptr can do: BOOST_ASSERT aborts, or the
\* call through the null pointer faults.
NullDereference == {Aborted("assertion_failed"), Aborted("segmentation_fault")}

\* Evaluates the model at every time, in list order, stacks the observations
\* and returns them with the times and the reference link end.
simulateObservationsWithCheckAndLinkEndIdOutput(observationTimes, observationModel, linkEndAssociatedWithTime) ==
    IF observationTimes = <<>>
    THEN {Outcome(Returned(ObservationSet(<<>>, <<>>, linkEndAssociatedWithTime)), <<>>)}
    ELSE IF observationModel = NULL
    THEN {Outcome(end, <<>>) : end \in NullDereference}
    ELSE {Outcome(
            Returned(ObservationSet(
                Concatenate([i \in 1..Len(observationTimes) |->
                    computeObservations(observationModel, observationTimes[i],
                                        linkEndAssociatedWithTime)]),
                observationTimes, linkEndAssociatedWithTime)),
            [i \in 1..Len(observationTimes) |->
                <<observationModel.id, observationTimes[i], linkEndAssociatedWithTime>>])}

----------------------------------------------------------------------------
(* simulateSingleObservationSet *)

\* As simulateSingleObservationSet, with the times put in ascending order
\* and each kept once before the observations are simulated.
simulateSingleObservationSetOfSortedTimes(observationsToSimulate, observationModel) ==
    IF observationsToSimulate.variant = "Tabulated"
    THEN simulateObservationsWithCheckAndLinkEndIdOutput(
            KeysInOrder({observationsToSimulate.simulationTimes_[i] :
                            i \in DOMAIN observationsToSimulate.simulationTimes_}),
            observationModel, observationsToSimulate.linkEndType_)
    ELSE {Outcome(Returned(EmptyObservationSet), <<>>)}

\* As simulateSingleObservationSet, with the observations simulated from the
\* receiver whatever the settings say.
simulateSingleObservationSetFromReceiver(observationsToSimulate, observationModel) ==
    IF observationsToSimulate.variant = "Tabulated"
    THEN simulateObservationsWithCheckAndLinkEndIdOutput(
            observationsToSimulate.simulationTimes_, observationModel, receiver)
    ELSE {Outcome(Returned(EmptyObservationSet), <<>>)}

\* Overload taking the observation model.
\* As simulateSingleObservationSet, with settings that are not tabulated
\* refused.
simulateSingleObservationSetRefusingOtherSettings(observationsToSimulate, observationModel) ==
    IF observationsToSimulate.variant = "Tabulated"
    THEN simulateObservationsWithCheckAndLinkEndIdOutput(
            observationsToSimulate.simulationTimes_, observationModel,
            observationsToSimulate.linkEndType_)
    ELSE {Outcome(Threw("observation simulation time settings not recognized"), <<>>)}

simulateSingleObservationSet(observationsToSimulate, observationModel) ==
    IF observationsToSimulate.variant = "Tabulated"
    THEN simulateObservationsWithCheckAndLinkEndIdOutput(
            observationsToSimulate.simulationTimes_, observationModel,
            observationsToSimulate.linkEndType_)
    ELSE {Outcome(Returned(EmptyObservationSet), <<>>)}

\* Overload taking the observation simulator and the link ends.
simulateSingleObservationSetWithSimulator(observationsToSimulate, observationSimulator, linkEnds) ==
    IF observationSimulator = NULL
    THEN {Outcome(Threw(ObservationSimulatorIsNull), <<>>)}
    ELSE simulateSingleObservationSet(
            observationsToSimulate, getObservationModel(observationSimulator, linkEnds))

----------------------------------------------------------------------------
(* createObservationSimulationTimeSettingsMap *)

\* As createObservationSimulationTimeSettingsMap, with the entries that have
\* no times left out.
createObservationSimulationTimeSettingsMapOfNonEmptyTimes(originalMap) ==
    LET pairs == PairsInOrder(originalMap)
        NewMap[n \in 0..Len(pairs)] ==
            IF n = 0 THEN << >>
            ELSE LET observableType == pairs[n][1]
                     linkEnds == pairs[n][2]
                     entryOfPair == originalMap[observableType][linkEnds]
                 IN  IF entryOfPair[1] = <<>> THEN NewMap[n - 1]
                     ELSE NestedMapPut(NewMap[n - 1], observableType, linkEnds,
                            TabulatedObservationSimulationTimeSettings(
                                entryOfPair[2], entryOfPair[1]))
    IN  NewMap[Len(pairs)]

\* originalMap: observable type -> link ends -> << times, link end type >>
createObservationSimulationTimeSettingsMap(originalMap) ==
    LET pairs == PairsInOrder(originalMap)
        NewMap[n \in 0..Len(pairs)] ==
            IF n = 0 THEN << >>
            ELSE LET observableType == pairs[n][1]
                     linkEnds == pairs[n][2]
                     entryOfPair == originalMap[observableType][linkEnds]
                 IN  NestedMapPut(NewMap[n - 1], observableType, linkEnds,
                        TabulatedObservationSimulationTimeSettings(
                            entryOfPair[2], entryOfPair[1]))
    IN  NewMap[Len(pairs)]

----------------------------------------------------------------------------
(* simulateObservations: the body of the loop over link ends *)

\* As DynamicPointerCast, with the simulator taken as one of the size asked
\* for without a look at the size it is of (a static cast).
StaticPointerCast(observationSimulator, size) == observationSimulator

\* boost::dynamic_pointer_cast< ObservationSimulator< size > >
DynamicPointerCast(observationSimulator, size) ==
    IF observationSimulator.ObservationSize = size THEN observationSimulator ELSE NULL

simulateObservationsOfSize(size, settings, observationSimulator, linkEnds) ==
    LET derivedObservationSimulator == DynamicPointerCast(observationSimulator, size)
    IN  IF derivedObservationSimulator = NULL
        THEN {Outcome(Threw(DynamicCastIsNull), <<>>)}
        ELSE simulateSingleObservationSetWithSimulator(
                settings, derivedObservationSimulator, linkEnds)

\* As simulateObservationsForLinkEnds, with a reported size of 2 taken
\* through the path of size 1.
simulateObservationsForLinkEndsSize2As1(settingsMap, observationSimulators, observableType, linkEnds) ==
    IF observableType \notin DOMAIN observationSimulators
    THEN {Outcome(Threw(OutOfRangeObservationSimulators), <<>>)}
    ELSE LET observationSimulator == observationSimulators[observableType]
             observationSize == getObservationSize(observationSimulator, linkEnds)
             settings == settingsMap[observableType][linkEnds]
         IN  CASE observationSize = 1 ->
                    simulateObservationsOfSize(1, settings, observationSimulator, linkEnds)
               [] observationSize = 2 ->
                    simulateObservationsOfSize(1, settings, observationSimulator, linkEnds)
               [] observationSize = 3 ->
                    simulateObservationsOfSize(3, settings, observationSimulator, linkEnds)
               [] OTHER -> {Outcome(Threw(NotYetImplementedForSize), <<>>)}

\* As simulateObservationsForLinkEnds, with an observable type that has no
\* simulator passed over: an empty observation set is stored for it.
simulateObservationsForLinkEndsSkippingMissing(settingsMap, observationSimulators, observableType, linkEnds) ==
    IF observableType \notin DOMAIN observationSimulators
    THEN {Outcome(Returned(EmptyObservationSet), <<>>)}
    ELSE LET observationSimulator == observationSimulators[observableType]
             observationSize == getObservationSize(observationSimulator, linkEnds)
             settings == settingsMap[observableType][linkEnds]
         IN  CASE observationSize = 1 ->
                    simulateObservationsOfSize(1, settings, observationSimulator, linkEnds)
               [] observationSize = 2 ->
                    simulateObservationsOfSize(2, settings, observationSimulator, linkEnds)
               [] observationSize = 3 ->
                    simulateObservationsOfSize(3, settings, observationSimulator, linkEnds)
               [] OTHER -> {Outcome(Threw(NotYetImplementedForSize), <<>>)}

\* As simulateObservationsForLinkEnds, with a size that is not 1, 2 or 3
\* taken through the simulator as it is, whatever its size.
simulateObservationsForLinkEndsWithFallback(settingsMap, observationSimulators, observableType, linkEnds) ==
    IF observableType \notin DOMAIN observationSimulators
    THEN {Outcome(Threw(OutOfRangeObservationSimulators), <<>>)}
    ELSE LET observationSimulator == observationSimulators[observableType]
             observationSize == getObservationSize(observationSimulator, linkEnds)
             settings == settingsMap[observableType][linkEnds]
         IN  CASE observationSize = 1 ->
                    simulateObservationsOfSize(1, settings, observationSimulator, linkEnds)
               [] observationSize = 2 ->
                    simulateObservationsOfSize(2, settings, observationSimulator, linkEnds)
               [] observationSize = 3 ->
                    simulateObservationsOfSize(3, settings, observationSimulator, linkEnds)
               [] OTHER -> simulateSingleObservationSetWithSimulator(
                                settings, observationSimulator, linkEnds)

simulateObservationsForLinkEnds(settingsMap, observationSimulators, observableType, linkEnds) ==
    IF observableType \notin DOMAIN observationSimulators
    THEN {Outcome(Threw(OutOfRangeObservationSimulators), <<>>)}
    ELSE LET observationSimulator == observationSimulators[observableType]
             observationSize == getObservationSize(observationSimulator, linkEnds)
             settings == settingsMap[observableType][linkEnds]
         IN  CASE observationSize = 1 ->
                    simulateObservationsOfSize(1, settings, observationSimulator, linkEnds)
               [] observationSize = 2 ->
                    simulateObservationsOfSize(2, settings, observationSimulator, linkEnds)
               [] observationSize = 3 ->
                    simulateObservationsOfSize(3, settings, observationSimulator, linkEnds)
               [] OTHER -> {Outcome(Threw(NotYetImplementedForSize), <<>>)}

\* simulateObservations, the overload taking time settings, as a whole: the
\* loop over the pairs in map order, ended by the first pair that fails.
\* Every outcome the call can have, with the model evaluations made.
simulateObservations(settingsMap, observationSimulators) ==
    LET pairs == PairsInOrder(settingsMap)
        Simulated[n \in 0..Len(pairs)] ==
            IF n = 0 THEN {Outcome(Returned(<< >>), <<>>)}
            ELSE UNION {
                    IF before.end.kind # "returned" THEN {before}
                    ELSE {Outcome(
                            IF single.end.kind = "returned"
                            THEN Returned(NestedMapPut(before.end.value, pairs[n][1],
                                                       pairs[n][2], single.end.value))
                            ELSE single.end,
                            before.evaluations \o single.evaluations) :
                          single \in simulateObservationsForLinkEnds(settingsMap,
                                        observationSimulators, pairs[n][1], pairs[n][2])} :
                    before \in Simulated[n - 1]}
    IN  Simulated[Len(pairs)]

----------------------------------------------------------------------------
(* simulateObservationsWithNoise: the body of the loop over link ends *)

\* A noise function is a function of time; the empty boost::function is the
\* function of empty domain.
EmptyFunction == << >>

\* Values a read past the end of a vector may give.
IndeterminateValues == {0, 5}

\* vector.segment( start, size ) += other (start counted from 0). With
\* other.rows( ) # size the behaviour is undefined: eigen_assert aborts, or
\* the first size coefficients of other are read, past its end if need be.
\* As SegmentAdd, with = written for +=.
SegmentAssign(vector, start, size, other) ==
    LET Assigned(read) ==
            [j \in 1..Len(vector) |->
                IF j > start /\ j <= start + size
                THEN RoundToScalar(read[j - start]) ELSE vector[j]]
    IN  IF Len(other) = size
        THEN {Returned(Assigned(other))}
        ELSE {Aborted("eigen_assert")}
             \cup {Returned(Assigned([j \in 1..size |->
                        IF j <= Len(other) THEN other[j] ELSE past[j]])) :
                   past \in [1..size -> IndeterminateValues]}

SegmentAdd(vector, start, size, other) ==
    LET Added(read) ==
            [j \in 1..Len(vector) |->
                IF j > start /\ j <= start + size
                THEN ScalarAdd(vector[j], read[j - start]) ELSE vector[j]]
    IN  IF Len(other) = size
        THEN {Returned(Added(other))}
        ELSE {Aborted("eigen_assert")}
             \cup {Returned(Added([j \in 1..size |->
                        IF j <= Len(other) THEN other[j] ELSE past[j]])) :
                   past \in [1..size -> IndeterminateValues]}

\* As AddNoiseFrom, with the noise of every sample taken at the first time.
RECURSIVE AddNoiseFromFirstTime(_, _, _, _, _, _)
AddNoiseFromFirstTime(i, noisyObservations, evaluations, nominalTimes, currentObservableSize, currentNoiseFunction) ==
    IF i > Len(nominalTimes)
    THEN {Outcome(Returned(noisyObservations), evaluations)}
    ELSE IF currentNoiseFunction = EmptyFunction
    THEN {Outcome(Threw("boost::bad_function_call"), evaluations)}
    ELSE LET time == nominalTimes[1]
             noise == currentNoiseFunction[time]
             checked == IF i = 1 THEN evaluations \o <<time>> ELSE evaluations
         IN  IF i = 1 /\ Len(noise) # currentObservableSize
             THEN {Outcome(Threw(NoiseSizeIsInconsistent), checked)}
             ELSE UNION {
                    IF added.kind = "returned"
                    THEN AddNoiseFromFirstTime(i + 1, added.value, checked \o <<time>>,
                            nominalTimes, currentObservableSize, currentNoiseFunction)
                    ELSE {Outcome(added, checked \o <<time>>)} :
                    added \in SegmentAdd(noisyObservations,
                                (i - 1) * currentObservableSize,
                                currentObservableSize, noise)}

\* As AddNoiseFrom, with the size of the noise checked at every sample.
RECURSIVE AddNoiseFromCheckingEverySample(_, _, _, _, _, _)
AddNoiseFromCheckingEverySample(i, noisyObservations, evaluations, nominalTimes, currentObservableSize, currentNoiseFunction) ==
    IF i > Len(nominalTimes)
    THEN {Outcome(Returned(noisyObservations), evaluations)}
    ELSE IF currentNoiseFunction = EmptyFunction
    THEN {Outcome(Threw("boost::bad_function_call"), evaluations)}
    ELSE LET time == nominalTimes[i]
             noise == currentNoiseFunction[time]
             checked == evaluations \o <<time>>
         IN  IF Len(noise) # currentObservableSize
             THEN {Outcome(Threw(NoiseSizeIsInconsistent), checked)}
             ELSE UNION {
                    IF added.kind = "returned"
                    THEN AddNoiseFromCheckingEverySample(i + 1, added.value, checked \o <<time>>,
                            nominalTimes, currentObservableSize, currentNoiseFunction)
                    ELSE {Outcome(added, checked \o <<time>>)} :
                    added \in SegmentAdd(noisyObservations,
                                (i - 1) * currentObservableSize,
                                currentObservableSize, noise)}

\* The loop over the times, from the i-th time on (i counted from 1).
RECURSIVE AddNoiseFrom(_, _, _, _, _, _)
AddNoiseFrom(i, noisyObservations, evaluations, nominalTimes, currentObservableSize, currentNoiseFunction) ==
    IF i > Len(nominalTimes)
    THEN {Outcome(Returned(noisyObservations), evaluations)}
    ELSE IF currentNoiseFunction = EmptyFunction
    THEN {Outcome(Threw("boost::bad_function_call"), evaluations)}
    ELSE LET time == nominalTimes[i]
             noise == currentNoiseFunction[time]
             checked == IF i = 1 THEN evaluations \o <<time>> ELSE evaluations
         IN  IF i = 1 /\ Len(noise) # currentObservableSize
             THEN {Outcome(Threw(NoiseSizeIsInconsistent), checked)}
             ELSE UNION {
                    IF added.kind = "returned"
                    THEN AddNoiseFrom(i + 1, added.value, checked \o <<time>>,
                            nominalTimes, currentObservableSize, currentNoiseFunction)
                    ELSE {Outcome(added, checked \o <<time>>)} :
                    added \in SegmentAdd(noisyObservations,
                                (i - 1) * currentObservableSize,
                                currentObservableSize, noise)}

\* As simulateObservationsWithNoiseForLinkEnds, with the noisy values
\* returned without the times and the link end type of the noise-free set.
simulateObservationsWithNoiseForLinkEndsWithoutTimes(noiseFreeObservationsList, noiseFunctionsMap, observableType, linkEnds) ==
    LET currentObservableSize == getObservableSize(observableType)
        nominalObservationsAndTimes == noiseFreeObservationsList[observableType][linkEnds]
        noisyObservations == nominalObservationsAndTimes.first
        nominalTimes == nominalObservationsAndTimes.second.first
    IN  IF Len(nominalTimes) # Len(noisyObservations) \div currentObservableSize
        THEN {Outcome(Threw(InputDataIsInconsistent), <<>>)}
        ELSE IF \/ observableType \notin DOMAIN noiseFunctionsMap
                \/ linkEnds \notin DOMAIN noiseFunctionsMap[observableType]
        THEN {Outcome(Threw(OutOfRangeNoiseFunctions), <<>>)}
        ELSE {Outcome(
                IF o.end.kind = "returned"
                THEN Returned([first |-> o.end.value,
                               second |-> EmptyObservationSet.second])
                ELSE o.end,
                [n \in 1..Len(o.evaluations) |->
                    <<observableType, linkEnds, o.evaluations[n]>>]) :
              o \in AddNoiseFrom(1, noisyObservations, <<>>, nominalTimes,
                        currentObservableSize,
                        noiseFunctionsMap[observableType][linkEnds])}

\* As simulateObservationsWithNoiseForLinkEnds, with the noise function
\* looked up in the loop over the samples, at the first of them: a set with
\* no sample is returned as it is, without a look at the noise functions.
simulateObservationsWithNoiseForLinkEndsLookingUpAtFirstSample(noiseFreeObservationsList, noiseFunctionsMap, observableType, linkEnds) ==
    LET currentObservableSize == getObservableSize(observableType)
        nominalObservationsAndTimes == noiseFreeObservationsList[observableType][linkEnds]
        noisyObservations == nominalObservationsAndTimes.first
        nominalTimes == nominalObservationsAndTimes.second.first
    IN  IF Len(nominalTimes) # Len(noisyObservations) \div currentObservableSize
        THEN {Outcome(Threw(InputDataIsInconsistent), <<>>)}
        ELSE IF nominalTimes = <<>>
        THEN {Outcome(Returned(nominalObservationsAndTimes), <<>>)}
        ELSE IF \/ observableType \notin DOMAIN noiseFunctionsMap
                \/ linkEnds \notin DOMAIN noiseFunctionsMap[observableType]
        THEN {Outcome(Threw(OutOfRangeNoiseFunctions), <<>>)}
        ELSE {Outcome(
                IF o.end.kind = "returned"
                THEN Returned([first |-> o.end.value,
                               second |-> nominalObservationsAndTimes.second])
                ELSE o.end,
                [n \in 1..Len(o.evaluations) |->
                    <<observableType, linkEnds, o.evaluations[n]>>]) :
              o \in AddNoiseFrom(1, noisyObservations, <<>>, nominalTimes,
                        currentObservableSize,
                        noiseFunctionsMap[observableType][linkEnds])}

simulateObservationsWithNoiseForLinkEnds(noiseFreeObservationsList, noiseFunctionsMap, observableType, linkEnds) ==
    LET currentObservableSize == getObservableSize(observableType)
        nominalObservationsAndTimes == noiseFreeObservationsList[observableType][linkEnds]
        noisyObservations == nominalObservationsAndTimes.first
        nominalTimes == nominalObservationsAndTimes.second.first
    IN  IF Len(nominalTimes) # Len(noisyObservations) \div currentObservableSize
        THEN {Outcome(Threw(InputDataIsInconsistent), <<>>)}
        ELSE IF \/ observableType \notin DOMAIN noiseFunctionsMap
                \/ linkEnds \notin DOMAIN noiseFunctionsMap[observableType]
        THEN {Outcome(Threw(OutOfRangeNoiseFunctions), <<>>)}
        ELSE {Outcome(
                IF o.end.kind = "returned"
                THEN Returned([first |-> o.end.value,
                               second |-> nominalObservationsAndTimes.second])
                ELSE o.end,
                [n \in 1..Len(o.evaluations) |->
                    <<observableType, linkEnds, o.evaluations[n]>>]) :
              o \in AddNoiseFrom(1, noisyObservations, <<>>, nominalTimes,
                        currentObservableSize,
                        noiseFunctionsMap[observableType][linkEnds])}

----------------------------------------------------------------------------
(* The overloads that bring their noise functions to the form above *)

\* As getIdenticallyAndIndependentlyDistributedNoise, with the noise put in
\* the first entry only, the others being zero.
getIdenticallyAndIndependentlyDistributedNoiseInFirstEntry(noiseFunction, observationSize, evaluationTime) ==
    [i \in 1..observationSize |-> IF i = 1 THEN noiseFunction[evaluationTime] ELSE 0]

getIdenticallyAndIndependentlyDistributedNoise(noiseFunction, observationSize, evaluationTime) ==
    [i \in 1..observationSize |-> noiseFunction[evaluationTime]]

\* boost::bind( &getIdenticallyAndIndependentlyDistributedNoise, f, size, _1 )
BindIdenticallyDistributedNoise(noiseFunction, observationSize) ==
    [time \in DOMAIN noiseFunction |->
        getIdenticallyAndIndependentlyDistributedNoise(noiseFunction, observationSize, time)]

\* Scalar function per observable type and link ends -> vector functions.
VectorFunctionsPerLinkEnds(scalarFunctions) ==
    [observableType \in DOMAIN scalarFunctions |->
        [linkEnds \in DOMAIN scalarFunctions[observableType] |->
            BindIdenticallyDistributedNoise(
                scalarFunctions[observableType][linkEnds],
                getObservableSize(observableType))]]

\* As FullNoiseFunctions, with an observable type that has no noise function
\* passed over.
FullNoiseFunctionsSkippingAbsent(settingsMap, vectorFunctions) ==
    LET types == KeysInOrder(DOMAIN settingsMap)
        Full[n \in 0..Len(types)] ==
            IF n = 0 THEN Returned(<< >>)
            ELSE LET observableType == types[n]
                     before == Full[n - 1]
                 IN  IF before.kind # "returned" THEN before
                     ELSE IF observableType \notin DOMAIN vectorFunctions
                     THEN before
                     ELSE IF vectorFunctions[observableType] = EmptyFunction
                     THEN Threw(MissingObservable)
                     ELSE IF DOMAIN settingsMap[observableType] = {}
                     THEN before
                     ELSE Returned(MapPut(before.value, observableType,
                            [linkEnds \in DOMAIN settingsMap[observableType] |->
                                vectorFunctions[observableType]]))
    IN  Full[Len(types)]

\* Vector function per observable type -> per observable type and link ends.
FullNoiseFunctions(settingsMap, vectorFunctions) ==
    LET types == KeysInOrder(DOMAIN settingsMap)
        Full[n \in 0..Len(types)] ==
            IF n = 0 THEN Returned(<< >>)
            ELSE LET observableType == types[n]
                     before == Full[n - 1]
                 IN  IF before.kind # "returned" THEN before
                     ELSE IF observableType \notin DOMAIN vectorFunctions
                     THEN Threw(OutOfRangeNoiseFunctions)
                     ELSE IF vectorFunctions[observableType] = EmptyFunction
                     THEN Threw(MissingObservable)
                     ELSE IF DOMAIN settingsMap[observableType] = {}
                     THEN before
                     ELSE Returned(MapPut(before.value, observableType,
                            [linkEnds \in DOMAIN settingsMap[observableType] |->
                                vectorFunctions[observableType]]))
    IN  Full[Len(types)]

\* Scalar function per observable type -> vector function per observable type.
VectorFunctionsPerObservable(scalarFunctions) ==
    [observableType \in DOMAIN scalarFunctions |->
        BindIdenticallyDistributedNoise(
            scalarFunctions[observableType], getObservableSize(observableType))]

\* One scalar function -> scalar function per observable type.
NoiseFunctionList(settingsMap, noiseFunction) ==
    [observableType \in DOMAIN settingsMap |-> noiseFunction]

----------------------------------------------------------------------------
(* State *)

VARIABLES
    entry,                  \* the function called
    args,                   \* its arguments
    pc,                     \* the function, or the loop, the call is in
    observationsToSimulate, \* the time settings map simulateObservations iterates
    noiseFunctions,         \* the noise functions, in the form reached so far
    observations,           \* simulateObservations' map (noiseFreeObservationsList)
    noisyObservationsList,  \* simulateObservationsWithNoise's map
    position,               \* pairs the running loop has completed
    result,                 \* NULL until the call ends
    modelEvaluations,       \* observation model evaluations, in call order
    noiseEvaluations        \* noise function evaluations, in call order

vars == <<entry, args, pc, observationsToSimulate, noiseFunctions, observations,
          noisyObservationsList, position, result, modelEvaluations, noiseEvaluations>>

EmptyMap == << >>

----------------------------------------------------------------------------
(* SpecSingle: one call of simulateSingleObservationSet *)

RECURSIVE SequencesUpTo(_, _)
SequencesUpTo(S, n) ==
    IF n = 0 THEN {<<>>}
    ELSE LET shorter == SequencesUpTo(S, n - 1)
         IN  shorter \cup {Append(s, x) : s \in shorter, x \in S}

\* Settings objects: every list of at most MaxTimes times, in any order and
\* with duplicates, and settings that are not tabulated.
SingleSettings ==
    {TabulatedObservationSimulationTimeSettings(r, times) :
        r \in LinkEndTypes, times \in SequencesUpTo(SimulationTimes, MaxTimes)}
    \cup {ObservationSimulationTimeSettings(r) : r \in LinkEndTypes}

SingleModels == {ObservationModel(size, id) : size \in 1..3, id \in 1..2}

\* Simulators of each size with a model registered for every subset of the
\* link ends, and the null pointer.
SingleSimulators ==
    {ObservationSimulator(size, [l \in LinkEndsValues |-> size],
                          [l \in registered |-> ObservationModel(size, l)]) :
        size \in 1..3, registered \in SUBSET LinkEndsValues}
    \cup {NULL}

InitSingle ==
    /\ entry \in {"simulateSingleObservationSet", "simulateSingleObservationSetWithSimulator"}
    /\ \/ /\ entry = "simulateSingleObservationSet"
          /\ args \in [observationsToSimulate : SingleSettings,
                       observationModel : SingleModels \cup {NULL}]
       \/ /\ entry = "simulateSingleObservationSetWithSimulator"
          /\ args \in [observationsToSimulate : SingleSettings,
                       observationSimulator : SingleSimulators,
                       linkEnds : LinkEndsValues]
    /\ pc = entry
    /\ observationsToSimulate = EmptyMap
    /\ noiseFunctions = EmptyMap
    /\ observations = EmptyMap
    /\ noisyObservationsList = EmptyMap
    /\ position = 0
    /\ result = NULL
    /\ modelEvaluations = <<>>
    /\ noiseEvaluations = <<>>

\* The call has not ended: nothing was returned or thrown to the caller.
Running == result = NULL

End(outcome) ==
    /\ result' = outcome.end
    /\ modelEvaluations' = modelEvaluations \o outcome.evaluations

CallSimulateSingleObservationSet ==
    /\ Running
    /\ pc = "simulateSingleObservationSet"
    /\ \E outcome \in simulateSingleObservationSet(
                        args.observationsToSimulate, args.observationModel) :
            End(outcome)
    /\ UNCHANGED <<entry, args, pc, observationsToSimulate, noiseFunctions,
                   observations, noisyObservationsList, position, noiseEvaluations>>

CallSimulateSingleObservationSetWithSimulator ==
    /\ Running
    /\ pc = "simulateSingleObservationSetWithSimulator"
    /\ \E outcome \in simulateSingleObservationSetWithSimulator(
                        args.observationsToSimulate, args.observationSimulator,
                        args.linkEnds) :
            End(outcome)
    /\ UNCHANGED <<entry, args, pc, observationsToSimulate, noiseFunctions,
                   observations, noisyObservationsList, position, noiseEvaluations>>

NextSingle ==
    \/ CallSimulateSingleObservationSet
    \/ CallSimulateSingleObservationSetWithSimulator

SpecSingle == InitSingle /\ [][NextSingle]_vars

----------------------------------------------------------------------------
(* Inputs of the calls of simulateObservations and                         *)
(* simulateObservationsWithNoise                                           *)

\* The (observable type, link ends) pairs a time settings map may hold:
\* two observable types, one of them with two link ends.
SimulatedPairs ==
    {<<one_way_range, 1>>, <<angular_position, 1>>, <<angular_position, 2>>}

SimulatedObservableTypes == {pair[1] : pair \in SimulatedPairs}

LinkEndsOf(observableType) ==
    {pair[2] : pair \in {q \in SimulatedPairs : q[1] = observableType}}

\* The reference link end the settings of a link ends value name.
ReferenceLinkEnd(linkEnds) == IF linkEnds = 1 THEN transmitter ELSE receiver

\* << n, ..., 1 >>: a list of n times that is not in ascending order.
DescendingTimes(n) == [i \in 1..n |-> n - i + 1]

TimeLists == {DescendingTimes(n) : n \in 0..MaxTimes}

TabulatedSettingsFor(linkEnds) ==
    {TabulatedObservationSimulationTimeSettings(ReferenceLinkEnd(linkEnds), times) :
        times \in TimeLists}

SettingsFor(linkEnds) ==
    TabulatedSettingsFor(linkEnds)
    \cup {ObservationSimulationTimeSettings(ReferenceLinkEnd(linkEnds))}

TableEntriesFor(linkEnds) ==
    {<<times, ReferenceLinkEnd(linkEnds)>> : times \in TimeLists}

\* Nested maps over subsets of SimulatedPairs with the values Values(linkEnds);
\* an observable type may be a key with no link ends under it.
PartialMaps(keys, Values(_)) ==
    UNION {{m \in [present -> UNION {Values(k) : k \in keys}] :
                \A k \in present : m[k] \in Values(k)} :
           present \in SUBSET keys}

NestedMaps(Values(_)) ==
    LET Inner(observableType) == PartialMaps(LinkEndsOf(observableType), Values)
    IN  PartialMaps(SimulatedObservableTypes, Inner)

TimeSettingsMaps == NestedMaps(SettingsFor)

ObservationTimeTables == NestedMaps(TableEntriesFor)

\* The sizes a simulator may report.
ReportedSizes == 0..4

ModelsFor(size, registered) == [l \in registered |-> ObservationModel(size, l)]

\* Simulators for an observable type: of the size of the type or of another
\* size, reporting their own size, another supported size or an unsupported
\* one, with a model for every link ends or for one of them only.
SimulatorsFor(observableType) ==
    LET own == getObservableSize(observableType)
    IN  {ObservationSimulator(size, [l \in LinkEndsValues |-> size],
                              ModelsFor(size, registered)) :
            size \in 1..3, registered \in {LinkEndsValues, {1}, {2}}}
        \cup {ObservationSimulator(own, [l \in LinkEndsValues |-> reported],
                                   ModelsFor(own, LinkEndsValues)) :
            reported \in ReportedSizes \ {own}}

SimulatorMaps(settingsMap) == PartialMaps(DOMAIN settingsMap, SimulatorsFor)

\* The overloads of simulateObservationsWithNoise: noise functions per
\* observable type and link ends (vector, scalar), per observable type
\* (vector, scalar), and one scalar function.
NoiseEntries ==
    {"simulateObservationsWithNoise",
     "simulateObservationsWithNoisePerLinkEndsScalar",
     "simulateObservationsWithNoisePerObservableVector",
     "simulateObservationsWithNoisePerObservableScalar",
     "simulateObservationsWithNoiseSingleFunction"}

NoCallYet ==
    /\ noiseFunctions = EmptyMap
    /\ observations = EmptyMap
    /\ noisyObservationsList = EmptyMap
    /\ position = 0
    /\ result = NULL
    /\ modelEvaluations = <<>>
    /\ noiseEvaluations = <<>>

----------------------------------------------------------------------------
(* Spec: one call of simulateObservations *)

Init ==
    /\ entry \in {"simulateObservations", "simulateObservationsFromTable"}
    /\ pc = entry
    /\ \/ /\ entry = "simulateObservations"
          /\ \E settingsMap \in TimeSettingsMaps :
             \E simulators \in SimulatorMaps(settingsMap) :
                /\ args = [observationsToSimulate |-> settingsMap,
                           observationSimulators |-> simulators]
                /\ observationsToSimulate = settingsMap
       \/ /\ entry = "simulateObservationsFromTable"
          /\ \E table \in ObservationTimeTables :
             \E simulators \in SimulatorMaps(table) :
                /\ args = [observationsToSimulate |-> table,
                           observationSimulators |-> simulators]
                /\ observationsToSimulate = EmptyMap
    /\ NoCallYet

\* As CreateTimeSettings, with the settings built for the receiver whatever
\* the link end type of the table.
CreateTimeSettingsFromReceiver ==
    /\ Running
    /\ pc = "simulateObservationsFromTable"
    /\ observationsToSimulate' =
            LET newMap == createObservationSimulationTimeSettingsMap(
                            args.observationsToSimulate)
            IN  [observableType \in DOMAIN newMap |->
                    [linkEnds \in DOMAIN newMap[observableType] |->
                        TabulatedObservationSimulationTimeSettings(receiver,
                            newMap[observableType][linkEnds].simulationTimes_)]]
    /\ pc' = "simulateObservations"
    /\ UNCHANGED <<entry, args, noiseFunctions, observations, noisyObservationsList,
                   position, result, modelEvaluations, noiseEvaluations>>

\* The overload taking the table of times: builds the settings and calls
\* the overload taking settings.
CreateTimeSettings ==
    /\ Running
    /\ pc = "simulateObservationsFromTable"
    /\ observationsToSimulate' =
            createObservationSimulationTimeSettingsMap(args.observationsToSimulate)
    /\ pc' = "simulateObservations"
    /\ UNCHANGED <<entry, args, noiseFunctions, observations, noisyObservationsList,
                   position, result, modelEvaluations, noiseEvaluations>>

\* As SimulateNextLinkEnds, with a pair that fails passed over: the loop
\* goes on with the next pair.
SimulateNextLinkEndsSkippingFailure ==
    /\ Running
    /\ pc = "simulateObservations"
    /\ position < Len(PairsInOrder(observationsToSimulate))
    /\ LET pair == PairsInOrder(observationsToSimulate)[position + 1]
       IN  \E outcome \in simulateObservationsForLinkEnds(observationsToSimulate,
                            args.observationSimulators, pair[1], pair[2]) :
            /\ modelEvaluations' = modelEvaluations \o outcome.evaluations
            /\ position' = position + 1
            /\ observations' =
                    IF outcome.end.kind = "returned"
                    THEN NestedMapPut(observations, pair[1], pair[2], outcome.end.value)
                    ELSE observations
            /\ UNCHANGED <<pc, result>>
    /\ UNCHANGED <<entry, args, observationsToSimulate, noiseFunctions,
                   noisyObservationsList, noiseEvaluations>>

\* One pass of the loop over link ends of simulateObservations.
SimulateNextLinkEnds ==
    /\ Running
    /\ pc = "simulateObservations"
    /\ position < Len(PairsInOrder(observationsToSimulate))
    /\ LET pair == PairsInOrder(observationsToSimulate)[position + 1]
       IN  \E outcome \in simulateObservationsForLinkEnds(observationsToSimulate,
                            args.observationSimulators, pair[1], pair[2]) :
            /\ modelEvaluations' = modelEvaluations \o outcome.evaluations
            /\ IF outcome.end.kind = "returned"
               THEN /\ observations' =
                        NestedMapPut(observations, pair[1], pair[2], outcome.end.value)
                    /\ position' = position + 1
                    /\ UNCHANGED <<pc, result>>
               ELSE /\ result' = outcome.end
                    /\ UNCHANGED <<pc, observations, position>>
    /\ UNCHANGED <<entry, args, observationsToSimulate, noiseFunctions,
                   noisyObservationsList, noiseEvaluations>>

\* As ReturnObservations, with an entry in the map returned for every
\* observable type of the time settings, also one without link ends.
ReturnObservationsOfEveryObservable ==
    /\ Running
    /\ pc = "simulateObservations"
    /\ position = Len(PairsInOrder(observationsToSimulate))
    /\ entry \notin NoiseEntries
    /\ result' = Returned([observableType \in DOMAIN observationsToSimulate |->
                            IF observableType \in DOMAIN observations
                            THEN observations[observableType] ELSE EmptyMap])
    /\ UNCHANGED <<entry, args, pc, observationsToSimulate, noiseFunctions,
                   observations, noisyObservationsList, position, modelEvaluations,
                   noiseEvaluations>>

\* return observations, to the caller of simulateObservations.
ReturnObservations ==
    /\ Running
    /\ pc = "simulateObservations"
    /\ position = Len(PairsInOrder(observationsToSimulate))
    /\ entry \notin NoiseEntries
    /\ result' = Returned(observations)
    /\ UNCHANGED <<entry, args, pc, observationsToSimulate, noiseFunctions,
                   observations, noisyObservationsList, position, modelEvaluations,
                   noiseEvaluations>>

Next ==
    \/ CreateTimeSettings
    \/ SimulateNextLinkEnds
    \/ ReturnObservations

Spec == Init /\ [][Next]_vars

----------------------------------------------------------------------------
(* SpecNoise: one call of simulateObservationsWithNoise *)

\* Simulators for an observable type in the calls with noise: of the size
\* of the type, or of size 3 whatever the type, with a model for every link
\* ends; and of the size of the type, with a model for the first link ends
\* only, or reporting a size of 4 for the second link ends.
NoiseSimulatorsFor(observableType) ==
    LET own == getObservableSize(observableType)
    IN  {ObservationSimulator(size, [l \in LinkEndsValues |-> size],
                              ModelsFor(size, LinkEndsValues)) :
            size \in {own, 3}}
        \cup {ObservationSimulator(own, [l \in LinkEndsValues |-> own],
                                   ModelsFor(own, {1})),
              ObservationSimulator(own, [l \in LinkEndsValues |->
                                            IF l = 1 THEN own ELSE 4],
                                   ModelsFor(own, LinkEndsValues))}

NoiseSimulatorMaps(settingsMap) == PartialMaps(DOMAIN settingsMap, NoiseSimulatorsFor)

\* Scalar noise functions: constant zero, and one that depends on the time
\* and differs from one link ends to the next.
ScalarNoiseShapes == {"zero", "ramp"}

ScalarNoise(shape, linkEnds) ==
    [time \in SimulationTimes |-> IF shape = "zero" THEN 0 ELSE time + linkEnds - 1]

\* Vector noise functions for an observable of a given size: of that size
\* at every time (zero, or depending on time, channel and link ends), of
\* another size at every time, or of that size at all times but time 1,
\* where they are longer or shorter.
VectorNoiseShapes == {"zero", "ramp", "wrong_size", "longer_at_1", "shorter_at_1"}

VectorNoise(shape, size, linkEnds) ==
    [time \in SimulationTimes |->
        LET rows == CASE shape = "wrong_size" -> size + 1
                      [] shape = "longer_at_1" /\ time = 1 -> size + 1
                      [] shape = "shorter_at_1" /\ time = 1 -> size - 1
                      [] OTHER -> size
        IN  [c \in 1..rows |-> IF shape = "zero" THEN 0 ELSE time + c + linkEnds - 2]]

\* The (observable type, link ends) pairs of a nested map.
PairsOf(map) ==
    UNION {{<<observableType, linkEnds>> : linkEnds \in DOMAIN map[observableType]} :
           observableType \in DOMAIN map}

\* The nested map over the given pairs with the values Value(type, linkEnds).
NestedMapOver(pairs, Value(_, _)) ==
    [observableType \in {pair[1] : pair \in pairs} |->
        [linkEnds \in {pair[2] : pair \in {q \in pairs : q[1] = observableType}} |->
            Value(observableType, linkEnds)]]

\* Noise functions per pair for the pairs of the settings, all but at most
\* one of them.
PairSubsets(settingsMap) ==
    {PairsOf(settingsMap)} \cup {PairsOf(settingsMap) \ {pair} : pair \in PairsOf(settingsMap)}

CanonicalNoiseMaps(settingsMap) ==
    {LET Value(observableType, linkEnds) ==
            VectorNoise(shape, getObservableSize(observableType), linkEnds)
     IN  NestedMapOver(pairs, Value) :
        shape \in VectorNoiseShapes, pairs \in PairSubsets(settingsMap)}

ScalarNoiseMapsPerLinkEnds(settingsMap) ==
    {LET Value(observableType, linkEnds) == ScalarNoise(shape, linkEnds)
     IN  NestedMapOver(pairs, Value) :
        shape \in ScalarNoiseShapes, pairs \in PairSubsets(settingsMap)}

\* Noise functions per observable type for the types of the settings, all
\* but at most one of them, with or without one for a type that is not in
\* the settings; a vector function may be the empty function.
TypeSubsets(settingsMap) ==
    LET requested == {DOMAIN settingsMap}
                        \cup {DOMAIN settingsMap \ {t} : t \in DOMAIN settingsMap}
    IN  requested \cup {types \cup {position_observable} : types \in requested}

VectorNoiseMapsPerObservable(settingsMap) ==
    {[observableType \in types |->
        VectorNoise(shape, getObservableSize(observableType), 1)] :
        shape \in {"zero", "ramp", "wrong_size"}, types \in TypeSubsets(settingsMap)}
    \cup {[observableType \in DOMAIN settingsMap |->
            IF observableType = empty THEN EmptyFunction
            ELSE VectorNoise(shape, getObservableSize(observableType), 1)] :
           shape \in {"zero", "ramp", "wrong_size"}, empty \in DOMAIN settingsMap}

ScalarNoiseMapsPerObservable(settingsMap) ==
    {[observableType \in types |-> ScalarNoise(shape, observableType + 1)] :
        shape \in ScalarNoiseShapes, types \in TypeSubsets(settingsMap)}

NoiseArguments(function, settingsMap) ==
    CASE function = "simulateObservationsWithNoise" -> CanonicalNoiseMaps(settingsMap)
      [] function = "simulateObservationsWithNoisePerLinkEndsScalar" ->
            ScalarNoiseMapsPerLinkEnds(settingsMap)
      [] function = "simulateObservationsWithNoisePerObservableVector" ->
            VectorNoiseMapsPerObservable(settingsMap)
      [] function = "simulateObservationsWithNoisePerObservableScalar" ->
            ScalarNoiseMapsPerObservable(settingsMap)
      [] function = "simulateObservationsWithNoiseSingleFunction" ->
            {ScalarNoise(shape, 1) : shape \in ScalarNoiseShapes}

InitNoise ==
    /\ entry \in NoiseEntries
    /\ pc = entry
    /\ \E settingsMap \in TimeSettingsMaps :
       \E simulators \in NoiseSimulatorMaps(settingsMap) :
       \E noise \in NoiseArguments(entry, settingsMap) :
            /\ args = [observationsToSimulate |-> settingsMap,
                       observationSimulators |-> simulators,
                       noiseFunctions |-> noise]
            /\ observationsToSimulate = settingsMap
            /\ noiseFunctions = noise
    /\ observations = EmptyMap
    /\ noisyObservationsList = EmptyMap
    /\ position = 0
    /\ result = NULL
    /\ modelEvaluations = <<>>
    /\ noiseEvaluations = <<>>

\* Overload taking one scalar function: a scalar function per observable
\* type of the settings, then the overload taking those.
SingleFunctionToPerObservable ==
    /\ Running
    /\ pc = "simulateObservationsWithNoiseSingleFunction"
    /\ noiseFunctions' = NoiseFunctionList(observationsToSimulate, noiseFunctions)
    /\ pc' = "simulateObservationsWithNoisePerObservableScalar"
    /\ UNCHANGED <<entry, args, observationsToSimulate, observations,
                   noisyObservationsList, position, result, modelEvaluations,
                   noiseEvaluations>>

\* Overload taking a scalar function per observable type.
PerObservableScalarToVector ==
    /\ Running
    /\ pc = "simulateObservationsWithNoisePerObservableScalar"
    /\ noiseFunctions' = VectorFunctionsPerObservable(noiseFunctions)
    /\ pc' = "simulateObservationsWithNoisePerObservableVector"
    /\ UNCHANGED <<entry, args, observationsToSimulate, observations,
                   noisyObservationsList, position, result, modelEvaluations,
                   noiseEvaluations>>

\* Overload taking a vector function per observable type.
PerObservableVectorToPerLinkEnds ==
    /\ Running
    /\ pc = "simulateObservationsWithNoisePerObservableVector"
    /\ LET full == FullNoiseFunctions(observationsToSimulate, noiseFunctions)
       IN  IF full.kind = "returned"
           THEN /\ noiseFunctions' = full.value
                /\ pc' = "simulateObservationsWithNoise"
                /\ UNCHANGED result
           ELSE /\ result' = full
                /\ UNCHANGED <<pc, noiseFunctions>>
    /\ UNCHANGED <<entry, args, observationsToSimulate, observations,
                   noisyObservationsList, position, modelEvaluations, noiseEvaluations>>

\* Overload taking a scalar function per observable type and link ends.
PerLinkEndsScalarToVector ==
    /\ Running
    /\ pc = "simulateObservationsWithNoisePerLinkEndsScalar"
    /\ noiseFunctions' = VectorFunctionsPerLinkEnds(noiseFunctions)
    /\ pc' = "simulateObservationsWithNoise"
    /\ UNCHANGED <<entry, args, observationsToSimulate, observations,
                   noisyObservationsList, position, result, modelEvaluations,
                   noiseEvaluations>>

\* As SimulateNoiseFreeObservations, with the noise functions of all pairs
\* looked up before simulateObservations is called.
SimulateNoiseFreeObservationsAfterNoiseLookup ==
    /\ Running
    /\ pc = "simulateObservationsWithNoise"
    /\ IF PairsOf(observationsToSimulate) \subseteq PairsOf(noiseFunctions)
       THEN /\ pc' = "simulateObservations"
            /\ UNCHANGED result
       ELSE /\ result' = Threw(OutOfRangeNoiseFunctions)
            /\ UNCHANGED pc
    /\ position' = 0
    /\ observations' = EmptyMap
    /\ UNCHANGED <<entry, args, observationsToSimulate, noiseFunctions,
                   noisyObservationsList, modelEvaluations, noiseEvaluations>>

\* Overload taking a vector function per observable type and link ends:
\* calls simulateObservations.
SimulateNoiseFreeObservations ==
    /\ Running
    /\ pc = "simulateObservationsWithNoise"
    /\ pc' = "simulateObservations"
    /\ position' = 0
    /\ observations' = EmptyMap
    /\ UNCHANGED <<entry, args, observationsToSimulate, noiseFunctions,
                   noisyObservationsList, result, modelEvaluations, noiseEvaluations>>

\* return observations, to simulateObservationsWithNoise.
ReturnNoiseFreeObservations ==
    /\ Running
    /\ pc = "simulateObservations"
    /\ position = Len(PairsInOrder(observationsToSimulate))
    /\ entry \in NoiseEntries
    /\ pc' = "addNoise"
    /\ position' = 0
    /\ UNCHANGED <<entry, args, observationsToSimulate, noiseFunctions, observations,
                   noisyObservationsList, result, modelEvaluations, noiseEvaluations>>

\* One pass of the loop over link ends of simulateObservationsWithNoise.
AddNoiseNextLinkEnds ==
    /\ Running
    /\ pc = "addNoise"
    /\ position < Len(PairsInOrder(observations))
    /\ LET pair == PairsInOrder(observations)[position + 1]
       IN  \E outcome \in simulateObservationsWithNoiseForLinkEnds(
                            observations, noiseFunctions, pair[1], pair[2]) :
            /\ noiseEvaluations' = noiseEvaluations \o outcome.evaluations
            /\ IF outcome.end.kind = "returned"
               THEN /\ noisyObservationsList' =
                        NestedMapPut(noisyObservationsList, pair[1], pair[2],
                                     outcome.end.value)
                    /\ position' = position + 1
                    /\ UNCHANGED <<pc, result>>
               ELSE /\ result' = outcome.end
                    /\ UNCHANGED <<pc, noisyObservationsList, position>>
    /\ UNCHANGED <<entry, args, observationsToSimulate, noiseFunctions, observations,
                   modelEvaluations>>

\* return noisyObservationsList
ReturnNoisyObservations ==
    /\ Running
    /\ pc = "addNoise"
    /\ position = Len(PairsInOrder(observations))
    /\ result' = Returned(noisyObservationsList)
    /\ UNCHANGED <<entry, args, pc, observationsToSimulate, noiseFunctions,
                   observations, noisyObservationsList, position, modelEvaluations,
                   noiseEvaluations>>

NextNoise ==
    \/ SingleFunctionToPerObservable
    \/ PerObservableScalarToVector
    \/ PerObservableVectorToPerLinkEnds
    \/ PerLinkEndsScalarToVector
    \/ SimulateNoiseFreeObservations
    \/ SimulateNextLinkEnds
    \/ ReturnNoiseFreeObservations
    \/ AddNoiseNextLinkEnds
    \/ ReturnNoisyObservations

SpecNoise == InitNoise /\ [][NextNoise]_vars

----------------------------------------------------------------------------
(* Properties of simulateSingleObservationSet, under SpecSingle *)

\* The call of the overload taking the model has ended, and its settings
\* were tabulated and its model was not null.
TabulatedCallEnded ==
    /\ entry = "simulateSingleObservationSet"
    /\ ~Running
    /\ args.observationsToSimulate.variant = "Tabulated"
    /\ args.observationModel # NULL

\* C1: with tabulated settings of times T and reference link end r, the
\* call returns T itself as its times, element for element and in the same
\* order, and r as its reference link end.
C1_TimesAndLinkEndCopied ==
    TabulatedCallEnded =>
        /\ result.kind = "returned"
        /\ result.value.second.first = args.observationsToSimulate.simulationTimes_
        /\ result.value.second.second = args.observationsToSimulate.linkEndType_

\* A call with two times that are not in ascending order has returned.
C1_Witness ==
    /\ TabulatedCallEnded
    /\ result.kind = "returned"
    /\ Len(args.observationsToSimulate.simulationTimes_) = 2
    /\ args.observationsToSimulate.simulationTimes_[1]
            > args.observationsToSimulate.simulationTimes_[2]

\* C2: with tabulated settings of times T and reference link end r, the
\* values returned are the observations of the model at T[1], T[2], ... from
\* r, one after the other, and the model was evaluated at these times, in
\* this order, and at no other.
C2_ValuesAreModelAtEachTime ==
    TabulatedCallEnded =>
        LET times == args.observationsToSimulate.simulationTimes_
            linkEndType == args.observationsToSimulate.linkEndType_
        IN  /\ result.kind = "returned"
            /\ result.value.first =
                Concatenate([i \in 1..Len(times) |->
                    computeObservations(args.observationModel, times[i], linkEndType)])
            /\ modelEvaluations =
                [i \in 1..Len(times) |-> <<args.observationModel.id, times[i], linkEndType>>]

\* A call with two different times, a model of size 2 and the transmitter
\* as reference has returned.
C2_Witness ==
    /\ TabulatedCallEnded
    /\ result.kind = "returned"
    /\ args.observationModel.ObservationSize = 2
    /\ args.observationsToSimulate.linkEndType_ = transmitter
    /\ Len(args.observationsToSimulate.simulationTimes_) = 2
    /\ args.observationsToSimulate.simulationTimes_[1]
            # args.observationsToSimulate.simulationTimes_[2]

\* C8: the overload taking a simulator and link ends throws when the
\* simulator has no model for the link ends, before any model evaluation,
\* and never returns an observation set then.
C8_ThrowsWhenNoModelRegistered ==
    (/\ entry = "simulateSingleObservationSetWithSimulator"
     /\ ~Running
     /\ args.observationSimulator # NULL
     /\ args.linkEnds \notin DOMAIN args.observationSimulator.observationModels_)
    => /\ result.kind = "threw"
       /\ modelEvaluations = <<>>

----------------------------------------------------------------------------
(* Properties of simulateObservations, under Spec *)

\* The pairs of the time settings (or of the table of times) of the call,
\* in the order simulateObservations visits them.
RequestedPairs == PairsInOrder(args.observationsToSimulate)

HasSimulator(observableType) == observableType \in DOMAIN args.observationSimulators

\* The size the simulator of the observable type of a pair reports for its
\* link ends.
ReportedSize(pair) == getObservationSize(args.observationSimulators[pair[1]], pair[2])

\* The observation set stored for a pair by simulateObservations.
SimulatedSet(pair) == observations[pair[1]][pair[2]]

WasSimulated(pair) == pair \in PairsOf(observations)

\* simulateObservations has thrown, or the process has died in it.
SimulateObservationsFailed ==
    ~Running /\ pc = "simulateObservations" /\ result.kind # "returned"

\* It did so in the pass of the loop for the i-th requested pair.
SimulateObservationsFailedAt(i) ==
    SimulateObservationsFailed /\ i = Cardinality(PairsOf(observations)) + 1

SimulateObservationsReturned ==
    ~Running /\ pc = "simulateObservations" /\ result.kind = "returned"

\* C3, as claimed: in the map a call of simulateObservations returns, every
\* observation set holds as many values as its times, times the size
\* getObservableSize gives for its observable type.
C3_ValuesPerTimeIsObservableSize ==
    SimulateObservationsReturned =>
        \A pair \in PairsOf(result.value) :
            Len(result.value[pair[1]][pair[2]].first)
                = Len(result.value[pair[1]][pair[2]].second.first)
                    * getObservableSize(pair[1])

\* C3, amended: every observation set of the returned map holds as many
\* values as its times, times the size its simulator reports for the link
\* ends; that is the size of the observable type when the simulator reports
\* that one.
C3_ValuesPerTimeIsReportedSize ==
    SimulateObservationsReturned =>
        \A pair \in PairsOf(result.value) :
            LET set == result.value[pair[1]][pair[2]]
            IN  /\ Len(set.first) = Len(set.second.first) * ReportedSize(pair)
                /\ ReportedSize(pair) = getObservableSize(pair[1]) =>
                        Len(set.first) = Len(set.second.first) * getObservableSize(pair[1])

\* A call has returned a set of two times from a simulator whose size is
\* not that of the observable type.
C3_Witness ==
    /\ SimulateObservationsReturned
    /\ \E pair \in PairsOf(result.value) :
            /\ Len(result.value[pair[1]][pair[2]].second.first) = 2
            /\ ReportedSize(pair) # getObservableSize(pair[1])

\* Observable types of the time settings that have no simulator.
TypesWithoutSimulator ==
    {observableType \in DOMAIN args.observationsToSimulate : ~HasSimulator(observableType)}

\* C6, as claimed: a call whose time settings hold an observable type that
\* has no simulator ends with the error of the missing simulator, also when
\* the type has no link ends under it.
C6_MissingSimulatorAlwaysThrows ==
    (~Running /\ TypesWithoutSimulator # {}) =>
        result = Threw(OutOfRangeObservationSimulators)

\* C6, amended: a call whose time settings hold an observable type with at
\* least one link ends and no simulator returns nothing: it fails, at the
\* first pair of such a type with the error of the missing simulator, or at
\* an earlier pair. That error is raised only at a pair of such a type: a
\* type with no link ends under it is never looked up.
C6_MissingSimulatorThrowsAtItsFirstPair ==
    LET missing == {i \in 1..Len(RequestedPairs) :
                        RequestedPairs[i][1] \in TypesWithoutSimulator}
        failedAt == Cardinality(PairsOf(observations)) + 1
    IN  /\ (~Running /\ missing # {}) =>
                /\ SimulateObservationsFailed
                /\ \A i \in missing : failedAt <= i
                /\ failedAt \in missing => result = Threw(OutOfRangeObservationSimulators)
        /\ (~Running /\ result = Threw(OutOfRangeObservationSimulators)) =>
                failedAt \in missing

\* A call has failed for the missing simulator of its second pair, after
\* one pair before it was simulated.
C6_Witness ==
    /\ result = Threw(OutOfRangeObservationSimulators)
    /\ Cardinality(PairsOf(observations)) = 1

\* C7: for every pair simulateObservations has come to whose observable
\* type has a simulator, the size the simulator reports for the link ends
\* decides: with a size that is not 1, 2 or 3 the call ends there with the
\* error of the unsupported size, and only with such a size; with a size of
\* 1, 2 or 3, a simulator of that size and a model for the link ends the pair
\* is simulated and its set holds that many values per time.
C7_ReportedSizeSelectsPath ==
    \A i \in 1..Len(RequestedPairs) :
        LET pair == RequestedPairs[i]
            simulator == args.observationSimulators[pair[1]]
            failedHere == SimulateObservationsFailedAt(i)
        IN  (HasSimulator(pair[1]) /\ (WasSimulated(pair) \/ failedHere)) =>
                /\ ReportedSize(pair) \notin {1, 2, 3} =>
                        failedHere /\ result = Threw(NotYetImplementedForSize)
                /\ (failedHere /\ result = Threw(NotYetImplementedForSize)) =>
                        ReportedSize(pair) \notin {1, 2, 3}
                /\ (/\ ReportedSize(pair) \in {1, 2, 3}
                    /\ simulator.ObservationSize = ReportedSize(pair)
                    /\ pair[2] \in DOMAIN simulator.observationModels_) =>
                        /\ WasSimulated(pair)
                        /\ Len(SimulatedSet(pair).first)
                            = Len(SimulatedSet(pair).second.first) * ReportedSize(pair)

\* A call has simulated a pair of two times and has then ended at the next
\* pair, whose simulator reported an unsupported size.
C7_Witness ==
    /\ result = Threw(NotYetImplementedForSize)
    /\ \E pair \in PairsOf(observations) : Len(SimulatedSet(pair).second.first) = 2

----------------------------------------------------------------------------
(* Properties of simulateObservationsWithNoise, under SpecNoise *)

\* The pairs of the noise-free observations, in the order the loops of
\* simulateObservationsWithNoise visit them.
NoiseFreePairs == PairsInOrder(observations)

NoiseFreeSet(pair) == observations[pair[1]][pair[2]]

\* The noise function of a pair, in the map of vector functions per
\* observable type and link ends.
HasNoiseFunction(pair) == pair \in PairsOf(noiseFunctions)

NoiseFunctionOf(pair) == noiseFunctions[pair[1]][pair[2]]

\* The loops of simulateObservationsWithNoise have thrown, or the process
\* has died in them, in the pass for the i-th pair.
AddNoiseFailedAt(i) ==
    ~Running /\ pc = "addNoise" /\ result.kind # "returned" /\ i = position + 1

\* The loops have come to the i-th pair.
AddNoiseReached(i) == pc = "addNoise" /\ (i <= position \/ AddNoiseFailedAt(i))

AddNoiseReturned == ~Running /\ pc = "addNoise" /\ result.kind = "returned"

\* The i-th block of currentObservableSize values, minus the same block of
\* the noise-free values.
BlockDifference(noisy, noiseFree, i, currentObservableSize) ==
    [c \in 1..currentObservableSize |->
        ScalarSubtract(noisy[(i - 1) * currentObservableSize + c],
                       noiseFree[(i - 1) * currentObservableSize + c])]

\* C4, as claimed: in the map a call of simulateObservationsWithNoise
\* returns, for every pair and every sample, the block of values of the
\* sample minus the block simulateObservations gave is exactly the vector
\* the noise function of the pair returns at the time of the sample; no
\* other value, time or link end type differs.
C4_DifferenceIsNoiseExactly ==
    AddNoiseReturned =>
        \A pair \in PairsOf(result.value) :
            LET noisy == result.value[pair[1]][pair[2]]
                noiseFree == NoiseFreeSet(pair)
                times == noiseFree.second.first
                d == getObservableSize(pair[1])
            IN  /\ noisy.second = noiseFree.second
                /\ Len(noisy.first) = Len(noiseFree.first)
                /\ \A i \in 1..Len(times) :
                        BlockDifference(noisy.first, noiseFree.first, i, d)
                            = NoiseFunctionOf(pair)[times[i]]
                /\ \A j \in (Len(times) * d + 1)..Len(noiseFree.first) :
                        noisy.first[j] = noiseFree.first[j]

\* C4, amended: for every pair whose noise function returns a vector of the
\* size of the observable at the time of every sample, every value of the
\* block of a sample is the value simulateObservations gave plus the entry
\* of the noise at the time of the sample, rounded as the scalar type rounds
\* a sum; the difference is the noise wherever that sum is exact; no other
\* value, time or link end type differs.
C4_NoisyIsRoundedSum ==
    AddNoiseReturned =>
        \A pair \in PairsOf(result.value) :
            LET noisy == result.value[pair[1]][pair[2]]
                noiseFree == NoiseFreeSet(pair)
                times == noiseFree.second.first
                d == getObservableSize(pair[1])
                noise == NoiseFunctionOf(pair)
            IN  (\A i \in 1..Len(times) : Len(noise[times[i]]) = d) =>
                    /\ noisy.second = noiseFree.second
                    /\ Len(noisy.first) = Len(noiseFree.first)
                    /\ \A i \in 1..Len(times) : \A c \in 1..d :
                            LET j == (i - 1) * d + c
                                sum == noiseFree.first[j] + noise[times[i]][c]
                            IN  /\ noisy.first[j]
                                    = ScalarAdd(noiseFree.first[j], noise[times[i]][c])
                                /\ RoundToScalar(sum) = sum =>
                                        ScalarSubtract(noisy.first[j], noiseFree.first[j])
                                            = noise[times[i]][c]
                    /\ \A j \in (Len(times) * d + 1)..Len(noiseFree.first) :
                            noisy.first[j] = noiseFree.first[j]

\* The overload taking vector functions per pair has returned a set of two
\* samples, the noise of the second differing from that of the first, with
\* a value the sum of which with its noise had to be rounded.
C4_Witness ==
    /\ AddNoiseReturned
    /\ entry = "simulateObservationsWithNoise"
    /\ \E pair \in PairsOf(result.value) :
            LET noisy == result.value[pair[1]][pair[2]]
                noiseFree == NoiseFreeSet(pair)
                times == noiseFree.second.first
                d == getObservableSize(pair[1])
                noise == NoiseFunctionOf(pair)
            IN  /\ Len(times) = 2
                /\ Len(noiseFree.first) = 2 * d
                /\ \A i \in 1..2 : Len(noise[times[i]]) = d
                /\ noise[times[1]] # noise[times[2]]
                /\ \E j \in 1..(2 * d) :
                        /\ noisy.first[j] # noiseFree.first[j]
                        /\ ScalarSubtract(noisy.first[j], noiseFree.first[j])
                            # noise[times[((j - 1) \div d) + 1]][((j - 1) % d) + 1]

\* The noise functions that are zero at every time, for every pair or
\* observable type of the settings, in the form an overload takes.
ZeroNoiseFor(function, settingsMap) ==
    LET ZeroVector(observableType, linkEnds) ==
            VectorNoise("zero", getObservableSize(observableType), linkEnds)
        ZeroScalar(observableType, linkEnds) == ScalarNoise("zero", linkEnds)
    IN  CASE function = "simulateObservationsWithNoise" ->
                NestedMapOver(PairsOf(settingsMap), ZeroVector)
          [] function = "simulateObservationsWithNoisePerLinkEndsScalar" ->
                NestedMapOver(PairsOf(settingsMap), ZeroScalar)
          [] function = "simulateObservationsWithNoisePerObservableVector" ->
                [observableType \in DOMAIN settingsMap |->
                    VectorNoise("zero", getObservableSize(observableType), 1)]
          [] function = "simulateObservationsWithNoisePerObservableScalar" ->
                [observableType \in DOMAIN settingsMap |-> ScalarNoise("zero", 1)]
          [] function = "simulateObservationsWithNoiseSingleFunction" ->
                ScalarNoise("zero", 1)

\* A call with zero noise has ended after simulateObservations had returned.
ZeroNoiseCallEnded ==
    /\ entry \in NoiseEntries
    /\ args.noiseFunctions = ZeroNoiseFor(entry, args.observationsToSimulate)
    /\ ~Running
    /\ pc = "addNoise"

\* Every set simulateObservations returned has as many times as the whole
\* number of times the size of its observable goes into its values.
SampleCountsPass ==
    \A pair \in PairsOf(observations) :
        Len(NoiseFreeSet(pair).second.first)
            = Len(NoiseFreeSet(pair).first) \div getObservableSize(pair[1])

\* C5, as claimed: with noise functions that are zero at every time, given
\* to any overload of simulateObservationsWithNoise, the call returns the map
\* simulateObservations returns for the same time settings and simulators,
\* whenever simulateObservations returns one.
C5_ZeroNoiseIsNoiseFree ==
    ZeroNoiseCallEnded => result = Returned(observations)

\* C5, amended: with noise functions that are zero at every time, given to
\* any overload, the call returns the map simulateObservations returns
\* whenever every set of that map passes the check of its number of samples
\* against the size of its observable; when a set does not, the call ends
\* with the error of the inconsistent data.
C5_ZeroNoiseIsNoiseFreeWhenCountsPass ==
    ZeroNoiseCallEnded =>
        /\ SampleCountsPass => result = Returned(observations)
        /\ ~SampleCountsPass => result = Threw(InputDataIsInconsistent)

\* The overload taking one scalar function has returned, with zero noise,
\* a map with a set of two samples.
C5_Witness ==
    /\ ZeroNoiseCallEnded
    /\ entry = "simulateObservationsWithNoiseSingleFunction"
    /\ result.kind = "returned"
    /\ \E pair \in PairsOf(result.value) :
            /\ Len(result.value[pair[1]][pair[2]].second.first) = 2
            /\ Len(result.value[pair[1]][pair[2]].first) >= 2

\* C9: for every set of the noise-free observations the loops of
\* simulateObservationsWithNoise come to, the call ends there with the error
\* of the inconsistent data exactly when the number of times multiplied by
\* the size of the observable is not the number of values.
C9_SampleCountMismatchThrows ==
    pc = "addNoise" =>
        \A i \in 1..Len(NoiseFreePairs) :
            LET pair == NoiseFreePairs[i]
                times == NoiseFreeSet(pair).second.first
                values == NoiseFreeSet(pair).first
                d == getObservableSize(pair[1])
            IN  AddNoiseReached(i) =>
                    (Len(times) * d # Len(values)
                        <=> (AddNoiseFailedAt(i) /\ result = Threw(InputDataIsInconsistent)))

\* C10: for every pair with at least one sample whose noise the loops of
\* simulateObservationsWithNoise come to add, the call ends there with the
\* error of the inconsistent noise size exactly when the vector the noise
\* function returns at the first time is not of the size of the observable;
\* the error is raised for no other reason, whatever the sizes of the
\* vectors returned at the later times.
C10_NoiseSizeCheckedAtFirstSampleOnly ==
    pc = "addNoise" =>
        \A i \in 1..Len(NoiseFreePairs) :
            LET pair == NoiseFreePairs[i]
                times == NoiseFreeSet(pair).second.first
                values == NoiseFreeSet(pair).first
                d == getObservableSize(pair[1])
            IN  /\ (/\ AddNoiseReached(i)
                    /\ Len(times) >= 1
                    /\ Len(times) = Len(values) \div d
                    /\ HasNoiseFunction(pair)) =>
                        ((AddNoiseFailedAt(i) /\ result = Threw(NoiseSizeIsInconsistent))
                            <=> Len(NoiseFunctionOf(pair)[times[1]]) # d)
                /\ (AddNoiseFailedAt(i) /\ result = Threw(NoiseSizeIsInconsistent)) =>
                        /\ Len(times) >= 1
                        /\ Len(NoiseFunctionOf(pair)[times[1]]) # d

\* A call has ended without the error of the inconsistent noise size after
\* coming to a pair of two samples whose noise function returns a vector of
\* the right size at the first time and of another size at the second.
C10_Witness ==
    /\ ~Running
    /\ pc = "addNoise"
    /\ result # Threw(NoiseSizeIsInconsistent)
    /\ \E i \in 1..Len(NoiseFreePairs) :
            LET pair == NoiseFreePairs[i]
                times == NoiseFreeSet(pair).second.first
                d == getObservableSize(pair[1])
            IN  /\ AddNoiseReached(i)
                /\ Len(times) = 2
                /\ Len(NoiseFreeSet(pair).first) = 2 * d
                /\ HasNoiseFunction(pair)
                /\ Len(NoiseFunctionOf(pair)[times[1]]) = d
                /\ Len(NoiseFunctionOf(pair)[times[2]]) # d

----------------------------------------------------------------------------
(* Properties of the overloads taking noise functions per observable type *)

PerObservableEntries ==
    {"simulateObservationsWithNoisePerObservableVector",
     "simulateObservationsWithNoisePerObservableScalar"}

\* Observable types of the time settings with no entry in the noise
\* functions given to the call.
TypesWithoutNoise ==
    DOMAIN args.observationsToSimulate \ DOMAIN args.noiseFunctions

\* Observable types of the time settings whose entry is the empty function.
TypesWithEmptyNoise ==
    {observableType \in DOMAIN args.observationsToSimulate \cap DOMAIN args.noiseFunctions :
        args.noiseFunctions[observableType] = EmptyFunction}

\* The call has ended in the loop that looks up the noise function of every
\* observable type of the time settings.
FailedInNoiseLookupPerObservable ==
    /\ ~Running
    /\ pc = "simulateObservationsWithNoisePerObservableVector"
    /\ result.kind = "threw"

----------------------------------------------------------------------------
(* SpecAggregate: one call of simulateObservations or of                   *)
(* simulateObservationsWithNoise, in any of their overloads                *)

InitAggregate == Init \/ InitNoise

NextAggregate == Next \/ NextNoise

SpecAggregate == InitAggregate /\ [][NextAggregate]_vars

\* C12: a call of simulateObservations or of simulateObservationsWithNoise,
\* in any overload, ends in one of two ways: it returns a map that holds a
\* set for every pair of the time settings, every pair having been gone
\* through without error, or it ends with an error and returns no map; the
\* pairs simulated before a failure are in no returned map and the loop
\* does not go past a pair that fails.
C12_CompleteMapOrError ==
    ~Running =>
        \/ /\ result.kind = "returned"
           /\ PairsOf(result.value) = PairsOf(args.observationsToSimulate)
           /\ PairsOf(observations) = PairsOf(args.observationsToSimulate)
           /\ position = Cardinality(PairsOf(args.observationsToSimulate))
        \/ /\ result.kind \in {"threw", "aborted"}
           /\ DOMAIN result = {"kind", "error"}
           /\ pc \in {"simulateObservations", "addNoise"} =>
                    position < Cardinality(PairsOf(args.observationsToSimulate))
           /\ pc = "simulateObservations" =>
                    Cardinality(PairsOf(observations)) = position
           /\ pc = "addNoise" =>
                    Cardinality(PairsOf(noisyObservationsList)) = position

\* A call with noise has ended with an error at its second pair or later,
\* after the noise of a pair before it had been added.
C12_Witness ==
    /\ ~Running
    /\ entry \in NoiseEntries
    /\ pc = "addNoise"
    /\ result.kind = "threw"
    /\ position >= 1
    /\ PairsOf(noisyObservationsList) # {}

----------------------------------------------------------------------------
(* SpecNoiseless: one call of simulateSingleObservationSet or of           *)
(* simulateObservations                                                    *)

InitNoiseless == InitSingle \/ Init

NextNoiseless == NextSingle \/ Next

SpecNoiseless == InitNoiseless /\ [][NextNoiseless]_vars

SingleEntries ==
    {"simulateSingleObservationSet", "simulateSingleObservationSetWithSimulator"}

\* The model a call of simulateSingleObservationSet has to evaluate: the
\* one it is given, or the one its simulator has for its link ends.
ModelOfSingleCall ==
    IF entry = "simulateSingleObservationSet" THEN args.observationModel
    ELSE IF args.observationSimulator = NULL THEN NULL
    ELSE getObservationModel(args.observationSimulator, args.linkEnds)

\* The simulator of the observable type of a pair is one simulateObservations
\* can hand the pair to: it reports a size of 1, 2 or 3 for the link ends, is
\* of that size, and has a model for the link ends.
CanBeHandedOn(pair) ==
    /\ HasSimulator(pair[1])
    /\ ReportedSize(pair) \in {1, 2, 3}
    /\ args.observationSimulators[pair[1]].ObservationSize = ReportedSize(pair)
    /\ pair[2] \in DOMAIN args.observationSimulators[pair[1]].observationModels_

\* The time settings of a pair of a call of simulateObservations.
SettingsOf(pair) == observationsToSimulate[pair[1]][pair[2]]

\* Model evaluations made for the pairs simulated so far: one per time of
\* the tabulated settings among them.
RECURSIVE TabulatedTimesOf(_)
TabulatedTimesOf(pairs) ==
    IF pairs = {} THEN 0
    ELSE LET pair == CHOOSE q \in pairs : TRUE
         IN  (IF SettingsOf(pair).variant = "Tabulated"
              THEN Len(SettingsOf(pair).simulationTimes_) ELSE 0)
             + TabulatedTimesOf(pairs \ {pair})

\* C13: a call of simulateSingleObservationSet with time settings that are
\* not tabulated, and a model, returns the empty observation set (no values,
\* no times) and evaluates no model; in simulateObservations a pair with
\* such settings, handed to its simulator, is simulated without error and
\* without a model evaluation, its empty set is in the map under
\* construction and in the map returned, and the loop goes on with the
\* pairs after it.
C13_OtherSettingsGiveEmptySet ==
    /\ (/\ entry \in SingleEntries
        /\ ~Running
        /\ args.observationsToSimulate.variant # "Tabulated"
        /\ ModelOfSingleCall # NULL) =>
            /\ result = Returned(EmptyObservationSet)
            /\ result.value.first = <<>>
            /\ result.value.second.first = <<>>
            /\ modelEvaluations = <<>>
    /\ (entry = "simulateObservations") =>
            /\ \A i \in 1..Len(RequestedPairs) :
                LET pair == RequestedPairs[i]
                IN  (/\ SettingsOf(pair).variant # "Tabulated"
                     /\ CanBeHandedOn(pair)
                     /\ (WasSimulated(pair) \/ SimulateObservationsFailedAt(i))) =>
                        /\ WasSimulated(pair)
                        /\ SimulatedSet(pair) = EmptyObservationSet
                        /\ SimulateObservationsReturned =>
                                result.value[pair[1]][pair[2]] = EmptyObservationSet
            /\ Len(modelEvaluations) = TabulatedTimesOf(PairsOf(observations))
            /\ SimulateObservationsReturned =>
                    PairsOf(result.value) = PairsOf(observationsToSimulate)

\* simulateObservations has returned a map in which the first pair, of
\* settings that are not tabulated, has the empty set and a pair after it,
\* of tabulated settings, has the observations at its two times.
C13_Witness ==
    /\ entry = "simulateObservations"
    /\ SimulateObservationsReturned
    /\ Len(RequestedPairs) >= 2
    /\ SettingsOf(RequestedPairs[1]).variant # "Tabulated"
    /\ result.value[RequestedPairs[1][1]][RequestedPairs[1][2]] = EmptyObservationSet
    /\ \E i \in 2..Len(RequestedPairs) :
            /\ SettingsOf(RequestedPairs[i]).variant = "Tabulated"
            /\ Len(result.value[RequestedPairs[i][1]][RequestedPairs[i][2]].second.first) = 2
            /\ Len(result.value[RequestedPairs[i][1]][RequestedPairs[i][2]].first) >= 2

----------------------------------------------------------------------------
(* Properties of the overload of simulateObservations taking a table *)

\* The outcome of the call that has ended, with its model evaluations.
OutcomeOfCall == Outcome(result, modelEvaluations)

\* C14: a call of simulateObservations with a table of times and link end
\* types ends as the overload taking time settings ends for the settings
\* createObservationSimulationTimeSettingsMap makes of the table and the
\* same simulators: with the same map, or the same failure, after the same
\* model evaluations; a call of the overload taking time settings ends as
\* that overload does.
C14_TableCallIsCallOnCreatedSettings ==
    ~Running =>
        /\ entry = "simulateObservationsFromTable" =>
                OutcomeOfCall \in simulateObservations(
                    createObservationSimulationTimeSettingsMap(args.observationsToSimulate),
                    args.observationSimulators)
        /\ entry = "simulateObservations" =>
                OutcomeOfCall \in simulateObservations(
                    args.observationsToSimulate, args.observationSimulators)

\* A call with a table has returned a map with a set of two times simulated
\* from the transmitter.
C14_Witness ==
    /\ entry = "simulateObservationsFromTable"
    /\ SimulateObservationsReturned
    /\ \E pair \in PairsOf(result.value) :
            /\ Len(result.value[pair[1]][pair[2]].second.first) = 2
            /\ Len(result.value[pair[1]][pair[2]].first) >= 2
            /\ result.value[pair[1]][pair[2]].second.second = transmitter
            /\ args.observationsToSimulate[pair[1]][pair[2]][2] = transmitter

\* The overload taking a table has made the time settings of its table.
TimeSettingsCreated ==
    /\ entry = "simulateObservationsFromTable"
    /\ pc = "simulateObservations"

\* C15: the map createObservationSimulationTimeSettingsMap makes of a table
\* has the (observable type, link ends) pairs of the table and no other, and
\* under each pair tabulated settings whose times are the times of the
\* table, in the same order, and whose link end type is that of the table;
\* it is made for every table, whatever its times and link end types: the
\* call never ends in the making of the settings.
C15_CreatedSettingsAreTheTable ==
    /\ (entry = "simulateObservationsFromTable" /\ ~Running) => TimeSettingsCreated
    /\ TimeSettingsCreated =>
            /\ observationsToSimulate =
                    createObservationSimulationTimeSettingsMap(args.observationsToSimulate)
            /\ PairsOf(observationsToSimulate) = PairsOf(args.observationsToSimulate)
            /\ \A pair \in PairsOf(observationsToSimulate) :
                    LET settings == observationsToSimulate[pair[1]][pair[2]]
                        entryOfPair == args.observationsToSimulate[pair[1]][pair[2]]
                    IN  /\ settings.variant = "Tabulated"
                        /\ settings.simulationTimes_ = entryOfPair[1]
                        /\ settings.linkEndType_ = entryOfPair[2]

\* The settings were made of a table with a pair of two times in descending
\* order from the transmitter, and a pair without times from the receiver.
C15_Witness ==
    /\ TimeSettingsCreated
    /\ \E pair \in PairsOf(observationsToSimulate) :
            /\ observationsToSimulate[pair[1]][pair[2]].simulationTimes_ = <<2, 1>>
            /\ observationsToSimulate[pair[1]][pair[2]].linkEndType_ = transmitter
    /\ \E pair \in PairsOf(observationsToSimulate) :
            /\ observationsToSimulate[pair[1]][pair[2]].simulationTimes_ = <<>>
            /\ observationsToSimulate[pair[1]][pair[2]].linkEndType_ = receiver

----------------------------------------------------------------------------
(* Further properties of simulateObservationsWithNoise, under SpecNoise *)

\* C16: the map a call of simulateObservationsWithNoise returns has the
\* observable types and the (observable type, link ends) pairs of the map
\* simulateObservations returns for the same time settings and simulators,
\* and under each pair the times and the link end type of that map, with
\* as many values.
C16_NoisyMapKeepsPairsTimesAndLinkEnds ==
    AddNoiseReturned =>
        /\ Outcome(Returned(observations), modelEvaluations) \in
                simulateObservations(args.observationsToSimulate,
                                     args.observationSimulators)
        /\ DOMAIN result.value = DOMAIN observations
        /\ PairsOf(result.value) = PairsOf(observations)
        /\ \A pair \in PairsOf(result.value) :
                LET noisy == result.value[pair[1]][pair[2]]
                IN  /\ noisy.second.first = NoiseFreeSet(pair).second.first
                    /\ noisy.second.second = NoiseFreeSet(pair).second.second
                    /\ Len(noisy.first) = Len(NoiseFreeSet(pair).first)

\* A call has returned a map of two pairs, one of them with two times from
\* the receiver and values that are not those simulateObservations gave.
C16_Witness ==
    /\ AddNoiseReturned
    /\ Cardinality(PairsOf(result.value)) >= 2
    /\ \E pair \in PairsOf(result.value) :
            /\ Len(NoiseFreeSet(pair).second.first) = 2
            /\ NoiseFreeSet(pair).second.second = receiver
            /\ result.value[pair[1]][pair[2]].first # NoiseFreeSet(pair).first

ScalarPerObservableEntries ==
    {"simulateObservationsWithNoisePerObservableScalar",
     "simulateObservationsWithNoiseSingleFunction"}

\* The call has come to the overload taking a vector function per observable
\* type and link ends.
VectorFunctionsPerLinkEndsMade ==
    pc \in {"simulateObservationsWithNoise", "simulateObservations", "addNoise"}

\* The scalar function given to the call for an observable type.
ScalarFunctionGivenFor(observableType) ==
    IF entry = "simulateObservationsWithNoiseSingleFunction"
    THEN args.noiseFunctions
    ELSE args.noiseFunctions[observableType]

\* C17: in a call with a scalar function per observable type, or with one
\* scalar function, every (observable type, link ends) pair of the time
\* settings gets a noise function that returns, at every time t, a vector of
\* the size of the observable type whose every entry is the value of the
\* scalar function at t: the function of the type, the same for all its link
\* ends, or the one function, the same for all types and link ends. With
\* one function, or one per type of the settings, these functions are made
\* without error.
C17_ScalarNoiseInEveryEntry ==
    entry \in ScalarPerObservableEntries =>
        /\ VectorFunctionsPerLinkEndsMade =>
                /\ PairsOf(noiseFunctions) = PairsOf(args.observationsToSimulate)
                /\ \A pair \in PairsOf(noiseFunctions) :
                   \A time \in SimulationTimes :
                        /\ Len(NoiseFunctionOf(pair)[time]) = getObservableSize(pair[1])
                        /\ \A c \in 1..getObservableSize(pair[1]) :
                                NoiseFunctionOf(pair)[time][c]
                                    = ScalarFunctionGivenFor(pair[1])[time]
        /\ (/\ ~Running
            /\ \/ entry = "simulateObservationsWithNoiseSingleFunction"
               \/ TypesWithoutNoise = {}) =>
                VectorFunctionsPerLinkEndsMade

\* The overload taking one scalar function, not zero, has made the vector
\* functions for time settings with two observable types, of sizes 1 and 2,
\* and three pairs.
C17_Witness ==
    /\ entry = "simulateObservationsWithNoiseSingleFunction"
    /\ VectorFunctionsPerLinkEndsMade
    /\ args.noiseFunctions = ScalarNoise("ramp", 1)
    /\ PairsOf(noiseFunctions) = SimulatedPairs

----------------------------------------------------------------------------
(* Further properties of simulateObservations, under Spec *)

\* C18: the map a call of simulateObservations returns has one observation
\* set for every (observable type, link ends) pair of the time settings and
\* for no other pair, and an entry for an observable type only if the type
\* has link ends in the time settings.
C18_ReturnedPairsAreRequestedPairs ==
    SimulateObservationsReturned =>
        /\ PairsOf(result.value) = PairsOf(args.observationsToSimulate)
        /\ DOMAIN result.value =
                {observableType \in DOMAIN args.observationsToSimulate :
                    DOMAIN args.observationsToSimulate[observableType] # {}}
        /\ \A pair \in PairsOf(result.value) :
                DOMAIN result.value[pair[1]][pair[2]] = {"first", "second"}

\* A call has returned a map with the two pairs of one observable type, for
\* time settings that also hold an observable type without link ends.
C18_Witness ==
    /\ SimulateObservationsReturned
    /\ Cardinality(PairsOf(result.value)) = 2
    /\ Cardinality(DOMAIN result.value) = 1
    /\ Cardinality(DOMAIN args.observationsToSimulate) = 2

----------------------------------------------------------------------------
(* The evaluations of the noise functions, under SpecNoise *)

\* The times at which the noise function of a pair was evaluated, in the
\* order of the evaluations.
NoiseEvaluationTimesOf(pair) ==
    LET OfPair(evaluation) == evaluation[1] = pair[1] /\ evaluation[2] = pair[2]
        ofPair == SelectSeq(noiseEvaluations, OfPair)
    IN  [k \in 1..Len(ofPair) |-> ofPair[k][3]]

\* C19: for every pair whose noise simulateObservationsWithNoise has added,
\* the noise function of the pair was evaluated once per sample and no
\* more: at the times of the pair, one after the other, in their order.
C19_NoiseEvaluatedOncePerSample ==
    pc = "addNoise" =>
        \A i \in 1..Len(NoiseFreePairs) :
            i <= position =>
                NoiseEvaluationTimesOf(NoiseFreePairs[i])
                    = NoiseFreeSet(NoiseFreePairs[i]).second.first

\* The outcomes simulateObservations can have for the time settings and the
\* simulators of the call.
NoiseFreeOutcomes ==
    simulateObservations(args.observationsToSimulate, args.observationSimulators)

\* C20: in the overload of simulateObservationsWithNoise taking a vector
\* function per observable type and link ends, simulateObservations has
\* returned, with every pair simulated, before the number of samples of any
\* pair is checked, any noise function looked up or evaluated; when
\* simulateObservations fails for the time settings and simulators of the
\* call, the call ends with that failure and no noise function was
\* evaluated, whatever the noise functions are.
C20_NoiseFreeStageComesFirst ==
    /\ noiseEvaluations # <<>> => pc = "addNoise"
    /\ pc = "addNoise" =>
            /\ PairsOf(observations) = PairsOf(args.observationsToSimulate)
            /\ Outcome(Returned(observations), modelEvaluations) \in NoiseFreeOutcomes
    /\ (/\ ~Running
        /\ VectorFunctionsPerLinkEndsMade
        /\ \A outcome \in NoiseFreeOutcomes : outcome.end.kind # "returned") =>
            /\ pc = "simulateObservations"
            /\ Outcome(result, modelEvaluations) \in NoiseFreeOutcomes
            /\ noiseEvaluations = <<>>

\* A call has ended with the error of the unsupported size at its third
\* pair, while its first pair had no noise function.
C20_Witness ==
    /\ ~Running
    /\ entry = "simulateObservationsWithNoise"
    /\ result = Threw(NotYetImplementedForSize)
    /\ Cardinality(PairsOf(observations)) = 2
    /\ PairsInOrder(args.observationsToSimulate)[1] \notin PairsOf(args.noiseFunctions)
    /\ noiseEvaluations = <<>>

----------------------------------------------------------------------------
(* The order of the passes of simulateObservations and of the steps of a   *)
(* pass, under Spec                                                        *)

\* The steps of the pass for a pair are taken in this order: the simulator
\* of the observable type is looked up, its size for the link ends is
\* queried, the size selects the path, the simulator is cast to the size of
\* the path, the model of the link ends is resolved, the model is evaluated.
\* The first step that fails for a pair: a type with no simulator, a size
\* that is not 1, 2 or 3, a simulator of another size than the size it
\* reports, link ends with no model; "none" when every step succeeds.
FirstFailingStep(pair) ==
    LET simulator == args.observationSimulators[pair[1]]
    IN  IF ~HasSimulator(pair[1]) THEN "simulator lookup"
        ELSE IF ReportedSize(pair) \notin {1, 2, 3} THEN "width dispatch"
        ELSE IF simulator.ObservationSize # ReportedSize(pair) THEN "cast to width"
        ELSE IF pair[2] \notin DOMAIN simulator.observationModels_ THEN "model resolution"
        ELSE "none"

\* The call has ended with the error of the step.
EndedWithErrorOf(step) ==
    CASE step = "simulator lookup" -> result = Threw(OutOfRangeObservationSimulators)
      [] step = "width dispatch" -> result = Threw(NotYetImplementedForSize)
      [] step = "cast to width" -> result = Threw(DynamicCastIsNull)
      [] step = "model resolution" -> result.kind = "threw"

\* The evaluations of its model the pass for a pair makes when no step
\* fails: one per time of tabulated settings, in the order of the times.
ModelEvaluationsOf(pair) ==
    LET settings == SettingsOf(pair)
        model == args.observationSimulators[pair[1]].observationModels_[pair[2]]
    IN  IF settings.variant = "Tabulated"
        THEN [k \in 1..Len(settings.simulationTimes_) |->
                <<model.id, settings.simulationTimes_[k], settings.linkEndType_>>]
        ELSE <<>>

\* The requested pairs that have a failing step, by their place in the order
\* of the passes.
FailingPairs ==
    {i \in 1..Len(RequestedPairs) : FirstFailingStep(RequestedPairs[i]) # "none"}

\* The number of pairs before the first failing pair; all of them when no
\* pair fails.
PairsBeforeFirstFailing ==
    IF FailingPairs = {} THEN Len(RequestedPairs)
    ELSE (CHOOSE i \in FailingPairs : \A j \in FailingPairs : i <= j) - 1

\* C21: a call of simulateObservations takes the pairs in the order of the
\* keys of the map (observable types ascending, link ends ascending within
\* a type) and the steps of a pair in their order; when it has ended, the
\* pairs before the first failing pair were simulated, their models were
\* evaluated in that order, and no other model was; the call has ended with
\* the error of the first failing step of the first failing pair, or has
\* returned when no pair has a failing step.
C21_FirstFailingStepOfFirstFailingPair ==
    (~Running /\ pc = "simulateObservations") =>
        /\ PairsInOrder(observations) = SubSeq(RequestedPairs, 1, PairsBeforeFirstFailing)
        /\ modelEvaluations =
                Concatenate([i \in 1..PairsBeforeFirstFailing |->
                                ModelEvaluationsOf(RequestedPairs[i])])
        /\ IF FailingPairs = {}
           THEN result = Returned(observations)
           ELSE EndedWithErrorOf(
                    FirstFailingStep(RequestedPairs[PairsBeforeFirstFailing + 1]))

\* C22: for every pair simulateObservations has come to whose simulator
\* reports for the link ends a size of 1, 2 or 3 and is not itself of that
\* size, the call ends there with the error of the cast: no observation set
\* is stored for the pair and no model is evaluated for it, the evaluations
\* made being those of the pairs stored before. The error of the cast is
\* raised for such a pair only.
C22_SimulatorOfOtherWidthFailsAtCast ==
    \A i \in 1..Len(RequestedPairs) :
        LET pair == RequestedPairs[i]
            simulator == args.observationSimulators[pair[1]]
            failedHere == SimulateObservationsFailedAt(i)
        IN  /\ (/\ WasSimulated(pair) \/ failedHere
                /\ HasSimulator(pair[1])
                /\ ReportedSize(pair) \in {1, 2, 3}
                /\ simulator.ObservationSize # ReportedSize(pair)) =>
                    /\ failedHere
                    /\ result = Threw(DynamicCastIsNull)
                    /\ ~WasSimulated(pair)
                    /\ Len(modelEvaluations) = TabulatedTimesOf(PairsOf(observations))
            /\ (failedHere /\ result = Threw(DynamicCastIsNull)) =>
                    /\ HasSimulator(pair[1])
                    /\ ReportedSize(pair) \in {1, 2, 3}
                    /\ simulator.ObservationSize # ReportedSize(pair)

\* A call has simulated a pair of two times and has then ended with the
\* error of the cast at the next pair, which has a time to simulate and a
\* model for its link ends in a simulator of size 2 that reports a size of 1.
C22_Witness ==
    /\ result = Threw(DynamicCastIsNull)
    /\ Cardinality(PairsOf(observations)) = 1
    /\ Len(modelEvaluations) = 2
    /\ LET pair == RequestedPairs[2]
           simulator == args.observationSimulators[pair[1]]
       IN  /\ simulator.ObservationSize = 2
           /\ ReportedSize(pair) = 1
           /\ pair[2] \in DOMAIN simulator.observationModels_
           /\ SettingsOf(pair).variant = "Tabulated"
           /\ SettingsOf(pair).simulationTimes_ # <<>>

----------------------------------------------------------------------------
(* The sets simulateObservationsWithNoise returns, under SpecNoise *)

\* C23: every observation set of the map a call of
\* simulateObservationsWithNoise returns holds as many values as it has
\* times, times the size getObservableSize gives for its observable type,
\* whatever size the simulator reports and however many times there are.
C23_ReturnedSetsHoldObservableSizePerTime ==
    AddNoiseReturned =>
        \A pair \in PairsOf(result.value) :
            Len(result.value[pair[1]][pair[2]].first)
                = Len(result.value[pair[1]][pair[2]].second.first)
                    * getObservableSize(pair[1])

\* The overloads taking a noise function per observable type and link
\* ends: vector functions, scalar functions.
PerLinkEndsEntries ==
    {"simulateObservationsWithNoise", "simulateObservationsWithNoisePerLinkEndsScalar"}

\* The pair has a noise function in the map given to the call.
WasGivenNoiseFunction(pair) == pair \in PairsOf(args.noiseFunctions)

\* C24: in the overloads taking a noise function per observable type and
\* link ends, vector or scalar, a call whose noise-free observations hold a
\* pair that was given no noise function returns nothing: it ends at that
\* pair with the error of the missing noise function, or with that of the
\* inconsistent data, unless it has ended at an earlier pair; for a pair
\* with no sample it is the error of the missing noise function. For a pair
\* with no sample that was given a noise function the pass does not fail,
\* whatever the size of the noise: the function is not evaluated and the set
\* stored for the pair is the noise-free one.
C24_NoiseFunctionLookedUpForEveryPair ==
    (entry \in PerLinkEndsEntries /\ pc = "addNoise") =>
        /\ \A i \in 1..Len(NoiseFreePairs) :
            LET pair == NoiseFreePairs[i]
                times == NoiseFreeSet(pair).second.first
            IN  /\ (AddNoiseReached(i) /\ ~WasGivenNoiseFunction(pair)) =>
                        /\ AddNoiseFailedAt(i)
                        /\ result \in {Threw(OutOfRangeNoiseFunctions),
                                       Threw(InputDataIsInconsistent)}
                        /\ times = <<>> => result = Threw(OutOfRangeNoiseFunctions)
                /\ (AddNoiseReached(i) /\ WasGivenNoiseFunction(pair) /\ times = <<>>) =>
                        /\ ~AddNoiseFailedAt(i)
                        /\ noisyObservationsList[pair[1]][pair[2]] = NoiseFreeSet(pair)
                        /\ NoiseEvaluationTimesOf(pair) = <<>>
        /\ (~Running /\ \E pair \in PairsOf(observations) : ~WasGivenNoiseFunction(pair)) =>
                result.kind # "returned"

\* A call of the overload taking vector functions has passed a first pair
\* with no sample, whose noise function returns vectors of a wrong size,
\* without evaluating it, and has ended at the second pair, which has no
\* sample and no noise function, with the error of the missing function.
C24_Witness ==
    /\ entry = "simulateObservationsWithNoise"
    /\ pc = "addNoise"
    /\ result = Threw(OutOfRangeNoiseFunctions)
    /\ position = 1
    /\ noiseEvaluations = <<>>
    /\ LET first == NoiseFreePairs[1]
           second == NoiseFreePairs[2]
       IN  /\ WasGivenNoiseFunction(first)
           /\ NoiseFreeSet(first).second.first = <<>>
           /\ Len(NoiseFunctionOf(first)[1]) # getObservableSize(first[1])
           /\ noisyObservationsList[first[1]][first[2]] = NoiseFreeSet(first)
           /\ ~WasGivenNoiseFunction(second)
           /\ NoiseFreeSet(second).second.first = <<>>

====
